---- MODULE Spec2Model ----
(***************************************************************************)
(* CopyAI page component (cards, saved layouts, document library) as a     *)
(* state machine.  The three page variants of the repository share the     *)
(* same handler logic; the definitions follow src/unnamed/part_001, the    *)
(* variant that holds every handler.                                       *)
(*                                                                         *)
(* Representation.                                                         *)
(*   - A string is a sequence of one-character strings, so that trim(),    *)
(*     lastIndexOf('.') and the '-2' suffix are computed as the code       *)
(*     computes them.                                                      *)
(*   - An id such as 'c' + Date.now() or 'L' + Date.now() + '_' + li is    *)
(*     the record [p |-> prefix, n |-> <<the numbers that follow>>].       *)
(*   - A nullable value (string | null) is a sequence of length 0 or 1.    *)
(*   - A JavaScript array has an identity: the card arrays live in heap,   *)
(*     and cards and every layout's cards field hold a reference into it,  *)
(*     so that sharing one array between the page and a saved layout is    *)
(*     visible in the model.                                               *)
(*   - Date.now() is the variable now.  It never decreases.  A handler     *)
(*     that waits for a modal dialog (prompt, confirm, the file picker)    *)
(*     resumes at a later clock value than the one it was started at.      *)
(***************************************************************************)
EXTENDS Integers, Sequences, FiniteSets, TLC

VARIABLES
    phase,               \* "unmounted" before the state initializers ran, then "ready"
    now,                 \* Date.now()
    cards,               \* reference (into heap) of the array held by the cards state
    heap,                \* reference -> sequence of Card
    layouts,             \* sequence of LayoutEntry; the cards field is a reference
    currentLayoutTitle,
    title, text,         \* add form
    editingId, editTitle, editText,
    expanded,            \* set of card ids
    showLibrary,
    docLib,              \* [folders |-> seq of DocFolder, files |-> seq of DocFile]
    activeFolder,        \* [k |-> "all"] | [k |-> "unfiled"] | [k |-> "folder", id |-> ...]
    previewDocId,        \* nullable file id
    storage,             \* localStorage: key -> raw entry
    medium,              \* "ok" | "flaky" (setItem may throw) | "denied" (every access throws)
    lastWrite,           \* key -> "none" | "ok" | "failed": how its last setItem ended
    pendingEffects,      \* keys whose persist effect has been scheduled and has not run
    notice,              \* what the last step showed: a toast, an alert or nothing
    boxes,               \* the boxes of the box page
    clip,                \* the clipboard: its text, the writes not settled yet, rejections nobody caught
    reads                \* file reads started by an import or an upload and not settled yet

vars == <<phase, now, cards, heap, layouts, currentLayoutTitle, title, text,
          editingId, editTitle, editText, expanded, showLibrary, docLib,
          activeFolder, previewDocId, storage, medium, lastWrite, pendingEffects,
          notice, boxes, clip, reads>>

cardVars == <<cards, heap, layouts, currentLayoutTitle, title, text,
              editingId, editTitle, editText, expanded, showLibrary>>
docVars == <<docLib, activeFolder, previewDocId>>
storeVars == <<storage, medium, lastWrite>>
sideVars == <<boxes, clip, reads>>

----------------------------------------------------------------------------
(* Bounds of the model *)

MaxClock == 2
MaxCards == 2
MaxLayouts == 3
MaxSaved == 2
MaxFolders == 2
MaxFiles == 2
\* Cards, layouts and folders where the focus is on something else
MaxEach == 1
\* Clipboard writes and file reads that have not settled
MaxPending == 2

----------------------------------------------------------------------------
(* Strings *)

Sp == " "
Untitled == <<"U">>          \* the literal 'Untitled'
Suffix2 == <<"-", "2">>      \* the literal '-2'

RECURSIVE TrimStart(_)
TrimStart(s) ==
    IF s # <<>> /\ Head(s) = Sp THEN TrimStart(Tail(s)) ELSE s

RECURSIVE TrimEnd(_)
TrimEnd(s) ==
    IF s # <<>> /\ s[Len(s)] = Sp THEN TrimEnd(SubSeq(s, 1, Len(s) - 1)) ELSE s

\* String.prototype.trim
Trim(s) == TrimEnd(TrimStart(s))

\* a || b on strings: the empty string is falsy
OrElse(s, d) == IF s = <<>> THEN d ELSE s

\* x ?? d on a nullable value
Coalesce(opt, d) == IF opt = <<>> THEN d ELSE opt[1]


\* The elements of s at the indices in I, in the order of s (what
\* Array.prototype.filter keeps when I is the set of indices that pass)
KeepIdx(s, I) ==
    LET F[i \in 0..Len(s)] ==
            IF i = 0 THEN <<>>
            ELSE IF i \in I THEN Append(F[i - 1], s[i]) ELSE F[i - 1]
    IN F[Len(s)]

\* The smallest index of a non-empty set of indices (Array.prototype.find)
FirstIdx(I) == CHOOSE i \in I : \A j \in I : i <= j

Id(p, n) == [p |-> p, n |-> n]

----------------------------------------------------------------------------
(* Notices, the card heap, scheduling *)

\* What the last step showed: nothing, a toast, an alert(), or a confirm() that
\* the user declined ([kind |-> "confirm", msg |-> "declined"])
NoNotice == [kind |-> "none", msg |-> "none"]
Toast(m) == [kind |-> "toast", msg |-> m]
Alert(m) == [kind |-> "alert", msg |-> m]

\* The array the cards state holds
Cards == heap[cards]

\* A reference no live array has (what an array literal, map or filter returns)
FreshRef(h) ==
    CHOOSE r \in 1..(Cardinality(DOMAIN h) + 1) :
        /\ r \notin DOMAIN h
        /\ \A q \in 1..(Cardinality(DOMAIN h) + 1) : q \notin DOMAIN h => r <= q

\* The heap after garbage collection: the arrays the state still refers to
Collect(h, c, ls) ==
    [r \in ({c} \cup {ls[i].cards : i \in 1..Len(ls)}) |-> h[r]]

\* A handler runs on the mounted component, after the passive effects of the
\* last render have run (React flushes them before it handles the next event)
Idle == phase = "ready" /\ pendingEffects = {}

\* The persist effect of a key runs after a render in which its state changed
\* identity (useEffect dependency compared with Object.is)
Schedule(keys) == pendingEffects' = pendingEffects \cup keys

\* The time at which a handler resumes after a modal dialog (prompt, the file
\* picker): the user's answer takes longer than one unit of the clock
AfterDialog == now + 1

----------------------------------------------------------------------------
(* Cards: add, edit, delete *)

\* onChange of the two add-form inputs
TypeForm(t, x) ==
    /\ Idle
    /\ title' = t
    /\ text' = x
    /\ notice' = NoNotice
    /\ UNCHANGED <<phase, now, cards, heap, layouts, currentLayoutTitle, editingId,
                   editTitle, editText, expanded, showLibrary, docVars, storeVars,
                   pendingEffects>>
    /\ UNCHANGED sideVars

\* The 'Show more / Show less' button of a card; its click handler stops the
\* event before the card's own onClick, which would copy the text
toggleExpanded(id) ==
    /\ Idle
    /\ expanded' = IF id \in expanded THEN expanded \ {id} ELSE expanded \cup {id}
    /\ notice' = NoNotice
    /\ UNCHANGED <<phase, now, cards, heap, layouts, currentLayoutTitle, title, text,
                   editingId, editTitle, editText, showLibrary, docVars, storeVars,
                   pendingEffects>>
    /\ UNCHANGED sideVars

\* The same button in the first page of src/app/page.tsx, which calls a
\* toggleExpanded that the component does not define: the handler stops the
\* event and then throws a ReferenceError, which nothing catches
toggleExpandedUndefined(id) ==
    /\ Idle
    /\ notice' = [kind |-> "error", msg |-> "toggleExpanded is not defined"]
    /\ UNCHANGED <<phase, now, cardVars, docVars, storeVars, pendingEffects>>
    /\ UNCHANGED sideVars

\* addCard that places the new card before the others
addCardFront ==
    /\ Idle
    /\ LET t == Trim(title)
           x == Trim(text)
       IN IF t = <<>> /\ x = <<>>
          THEN /\ notice' = Toast("enter a title or text first")
               /\ UNCHANGED <<cards, heap, title, text, pendingEffects>>
          ELSE LET newCard == [id |-> Id("c", <<now>>), title |-> OrElse(t, Untitled),
                               text |-> x, createdAt |-> now]
                   r == FreshRef(heap)
               IN /\ cards' = r
                  /\ heap' = Collect((r :> (<<newCard>> \o Cards)) @@ heap, r, layouts)
                  /\ title' = <<>>
                  /\ text' = <<>>
                  /\ Schedule({"cards"})
                  /\ notice' = Toast("added")
    /\ UNCHANGED <<phase, now, layouts, currentLayoutTitle, editingId, editTitle,
                   editText, expanded, showLibrary, docVars, storeVars>>
    /\ UNCHANGED sideVars

\* addCard with cards.push(newCard) on the array in place
addCardPush ==
    /\ Idle
    /\ LET t == Trim(title)
           x == Trim(text)
       IN IF t = <<>> /\ x = <<>>
          THEN /\ notice' = Toast("enter a title or text first")
               /\ UNCHANGED <<cards, heap, title, text, pendingEffects>>
          ELSE LET newCard == [id |-> Id("c", <<now>>), title |-> OrElse(t, Untitled),
                               text |-> x, createdAt |-> now]
               IN /\ cards' = cards
                  /\ heap' = [heap EXCEPT ![cards] = Append(@, newCard)]
                  /\ title' = <<>>
                  /\ text' = <<>>
                  /\ Schedule({"cards"})
                  /\ notice' = Toast("added")
    /\ UNCHANGED <<phase, now, layouts, currentLayoutTitle, editingId, editTitle,
                   editText, expanded, showLibrary, docVars, storeVars>>
    /\ UNCHANGED sideVars

\* addCard that trims the title but stores the text as typed
addCardRawText ==
    /\ Idle
    /\ LET t == Trim(title)
           x == Trim(text)
       IN IF t = <<>> /\ x = <<>>
          THEN /\ notice' = Toast("enter a title or text first")
               /\ UNCHANGED <<cards, heap, title, text, pendingEffects>>
          ELSE LET newCard == [id |-> Id("c", <<now>>), title |-> OrElse(t, Untitled),
                               text |-> text, createdAt |-> now]
                   r == FreshRef(heap)
               IN /\ cards' = r
                  /\ heap' = Collect((r :> Append(Cards, newCard)) @@ heap, r, layouts)
                  /\ title' = <<>>
                  /\ text' = <<>>
                  /\ Schedule({"cards"})
                  /\ notice' = Toast("added")
    /\ UNCHANGED <<phase, now, layouts, currentLayoutTitle, editingId, editTitle,
                   editText, expanded, showLibrary, docVars, storeVars>>
    /\ UNCHANGED sideVars

addCard ==
    /\ Idle
    /\ LET t == Trim(title)
           x == Trim(text)
       IN IF t = <<>> /\ x = <<>>
          THEN /\ notice' = Toast("enter a title or text first")
               /\ UNCHANGED <<cards, heap, title, text, pendingEffects>>
          ELSE LET newCard == [id |-> Id("c", <<now>>), title |-> OrElse(t, Untitled),
                               text |-> x, createdAt |-> now]
                   r == FreshRef(heap)
               IN /\ cards' = r
                  /\ heap' = Collect((r :> Append(Cards, newCard)) @@ heap, r, layouts)
                  /\ title' = <<>>
                  /\ text' = <<>>
                  /\ Schedule({"cards"})
                  /\ notice' = Toast("added")
    /\ UNCHANGED <<phase, now, layouts, currentLayoutTitle, editingId, editTitle,
                   editText, expanded, showLibrary, docVars, storeVars>>
    /\ UNCHANGED sideVars

startEdit(id) ==
    /\ Idle
    /\ LET hits == {i \in 1..Len(Cards) : Cards[i].id = id}
       IN IF hits = {}
          THEN UNCHANGED <<editingId, editTitle, editText>>
          ELSE /\ editingId' = <<id>>
               /\ editTitle' = Cards[FirstIdx(hits)].title
               /\ editText' = Cards[FirstIdx(hits)].text
    /\ notice' = NoNotice
    /\ UNCHANGED <<phase, now, cards, heap, layouts, currentLayoutTitle, title, text,
                   expanded, showLibrary, docVars, storeVars, pendingEffects>>
    /\ UNCHANGED sideVars

\* onChange of the two inline edit inputs, rendered for the card being edited
TypeEdit(t, x) ==
    /\ Idle
    /\ \E i \in 1..Len(Cards) : editingId = <<Cards[i].id>>
    /\ editTitle' = t
    /\ editText' = x
    /\ notice' = NoNotice
    /\ UNCHANGED <<phase, now, cards, heap, layouts, currentLayoutTitle, title, text,
                   editingId, expanded, showLibrary, docVars, storeVars, pendingEffects>>
    /\ UNCHANGED sideVars

\* saveEdit that trims the text as it trims the title
saveEditTrimmed ==
    /\ Idle
    /\ IF editingId = <<>>
       THEN /\ notice' = NoNotice
            /\ UNCHANGED <<cards, heap, editingId, editTitle, editText, pendingEffects>>
       ELSE LET t == OrElse(Trim(editTitle), Untitled)
                r == FreshRef(heap)
                edited == [i \in 1..Len(Cards) |->
                              IF Cards[i].id = editingId[1]
                              THEN [Cards[i] EXCEPT !.title = t, !.text = Trim(editText)]
                              ELSE Cards[i]]
            IN /\ cards' = r
               /\ heap' = Collect((r :> edited) @@ heap, r, layouts)
               /\ editingId' = <<>>
               /\ editTitle' = <<>>
               /\ editText' = <<>>
               /\ Schedule({"cards"})
               /\ notice' = Toast("saved")
    /\ UNCHANGED <<phase, now, layouts, currentLayoutTitle, title, text, expanded,
                   showLibrary, docVars, storeVars>>
    /\ UNCHANGED sideVars

saveEdit ==
    /\ Idle
    /\ IF editingId = <<>>
       THEN /\ notice' = NoNotice
            /\ UNCHANGED <<cards, heap, editingId, editTitle, editText, pendingEffects>>
       ELSE LET t == OrElse(Trim(editTitle), Untitled)
                r == FreshRef(heap)
                edited == [i \in 1..Len(Cards) |->
                              IF Cards[i].id = editingId[1]
                              THEN [Cards[i] EXCEPT !.title = t, !.text = editText]
                              ELSE Cards[i]]
            IN /\ cards' = r
               /\ heap' = Collect((r :> edited) @@ heap, r, layouts)
               /\ editingId' = <<>>
               /\ editTitle' = <<>>
               /\ editText' = <<>>
               /\ Schedule({"cards"})
               /\ notice' = Toast("saved")
    /\ UNCHANGED <<phase, now, layouts, currentLayoutTitle, title, text, expanded,
                   showLibrary, docVars, storeVars>>
    /\ UNCHANGED sideVars

cancelEdit ==
    /\ Idle
    /\ editingId' = <<>>
    /\ editTitle' = <<>>
    /\ editText' = <<>>
    /\ notice' = NoNotice
    /\ UNCHANGED <<phase, now, cards, heap, layouts, currentLayoutTitle, title, text,
                   expanded, showLibrary, docVars, storeVars, pendingEffects>>
    /\ UNCHANGED sideVars

removeCard(id, confirmed) ==
    /\ Idle
    /\ IF ~confirmed
       THEN /\ notice' = [kind |-> "confirm", msg |-> "declined"]
            /\ UNCHANGED <<cards, heap, pendingEffects>>
       ELSE LET r == FreshRef(heap)
                kept == KeepIdx(Cards, {i \in 1..Len(Cards) : Cards[i].id # id})
            IN /\ cards' = r
               /\ heap' = Collect((r :> kept) @@ heap, r, layouts)
               /\ Schedule({"cards"})
               /\ notice' = Toast("deleted")
    /\ UNCHANGED <<phase, now, layouts, currentLayoutTitle, title, text, editingId,
                   editTitle, editText, expanded, showLibrary, docVars, storeVars>>
    /\ UNCHANGED sideVars

----------------------------------------------------------------------------
(* Layouts: save, open, delete *)

RECURSIVE SuffixUntilFree(_, _)
\* while (taken.has(t)) t = t + '-2'
SuffixUntilFree(t, taken) ==
    IF t \in taken THEN SuffixUntilFree(t \o Suffix2, taken) ELSE t

LayoutTitles(ls) == {ls[i].title : i \in 1..Len(ls)}

\* nextUniqueTitle with an if in place of the while
nextUniqueTitleOnce(base, ls) ==
    LET t == OrElse(Trim(base), Untitled)
    IN IF t \in LayoutTitles(ls) THEN t \o Suffix2 ELSE t

\* nextUniqueTitle that starts from the base with one suffix
nextUniqueTitleSuffixed(base, ls) ==
    SuffixUntilFree(OrElse(Trim(base), Untitled) \o Suffix2, LayoutTitles(ls))

nextUniqueTitle(base, ls) ==
    SuffixUntilFree(OrElse(Trim(base), Untitled), LayoutTitles(ls))

\* saveLayout that gives up when the prompt is cancelled
saveLayoutCancellable(answer) ==
    /\ Idle
    /\ IF Len(Cards) = 0
       THEN /\ notice' = Toast("nothing to save")
            /\ UNCHANGED <<now, layouts, currentLayoutTitle, pendingEffects>>
       ELSE IF answer = <<>>
       THEN /\ now < MaxClock
            /\ now' = AfterDialog
            /\ notice' = NoNotice
            /\ UNCHANGED <<layouts, currentLayoutTitle, pendingEffects>>
       ELSE /\ now < MaxClock
            /\ now' = AfterDialog
            /\ LET base == Coalesce(answer, <<>>)
                   uniqueTitle == nextUniqueTitle(base, layouts)
                   entry == [id |-> Id("L", <<now'>>), title |-> uniqueTitle,
                             savedAt |-> now', cards |-> cards]
               IN /\ layouts' = Append(layouts, entry)
                  /\ currentLayoutTitle' = uniqueTitle
            /\ Schedule({"layouts"})
            /\ notice' = Toast("saved layout")
    /\ UNCHANGED <<phase, cards, heap, title, text, editingId, editTitle, editText,
                   expanded, showLibrary, docVars, storeVars>>
    /\ UNCHANGED sideVars

\* answer: what prompt() returned, null (empty sequence) when cancelled
saveLayout(answer) ==
    /\ Idle
    /\ IF Len(Cards) = 0
       THEN /\ notice' = Toast("nothing to save")
            /\ UNCHANGED <<now, layouts, currentLayoutTitle, pendingEffects>>
       ELSE /\ now < MaxClock
            /\ now' = AfterDialog
            /\ LET base == Coalesce(answer, <<>>)
                   uniqueTitle == nextUniqueTitle(base, layouts)
                   entry == [id |-> Id("L", <<now'>>), title |-> uniqueTitle,
                             savedAt |-> now', cards |-> cards]
               IN /\ layouts' = Append(layouts, entry)
                  /\ currentLayoutTitle' = uniqueTitle
            /\ Schedule({"layouts"})
            /\ notice' = Toast("saved layout")
    /\ UNCHANGED <<phase, cards, heap, title, text, editingId, editTitle, editText,
                   expanded, showLibrary, docVars, storeVars>>
    /\ UNCHANGED sideVars

\* openLayout without the line  setExpanded(new Set())
openLayoutKeepExpanded(id) ==
    /\ Idle
    /\ LET hits == {i \in 1..Len(layouts) : layouts[i].id = id}
       IN IF hits = {}
          THEN /\ notice' = NoNotice
               /\ UNCHANGED <<cards, heap, currentLayoutTitle, showLibrary, expanded,
                              pendingEffects>>
          ELSE LET lay == layouts[FirstIdx(hits)]
               IN /\ cards' = lay.cards
                  /\ heap' = Collect(heap, lay.cards, layouts)
                  /\ currentLayoutTitle' = lay.title
                  /\ showLibrary' = FALSE
                  /\ expanded' = expanded
                  /\ Schedule(IF lay.cards = cards THEN {} ELSE {"cards"})
                  /\ notice' = Toast("opened")
    /\ UNCHANGED <<phase, now, layouts, title, text, editingId, editTitle, editText,
                   docVars, storeVars>>
    /\ UNCHANGED sideVars

openLayout(id) ==
    /\ Idle
    /\ LET hits == {i \in 1..Len(layouts) : layouts[i].id = id}
       IN IF hits = {}
          THEN /\ notice' = NoNotice
               /\ UNCHANGED <<cards, heap, currentLayoutTitle, showLibrary, expanded,
                              pendingEffects>>
          ELSE LET lay == layouts[FirstIdx(hits)]
               IN /\ cards' = lay.cards
                  /\ heap' = Collect(heap, lay.cards, layouts)
                  /\ currentLayoutTitle' = lay.title
                  /\ showLibrary' = FALSE
                  /\ expanded' = {}
                  /\ Schedule(IF lay.cards = cards THEN {} ELSE {"cards"})
                  /\ notice' = Toast("opened")
    /\ UNCHANGED <<phase, now, layouts, title, text, editingId, editTitle, editText,
                   docVars, storeVars>>
    /\ UNCHANGED sideVars

deleteLayout(id, confirmed) ==
    /\ Idle
    /\ LET hits == {i \in 1..Len(layouts) : layouts[i].id = id}
       IN IF hits = {} \/ ~confirmed
          THEN /\ notice' = IF hits = {} THEN NoNotice ELSE [kind |-> "confirm", msg |-> "declined"]
               /\ UNCHANGED <<heap, layouts, pendingEffects>>
          ELSE LET kept == KeepIdx(layouts, {i \in 1..Len(layouts) : layouts[i].id # id})
               IN /\ layouts' = kept
                  /\ heap' = Collect(heap, cards, kept)
                  /\ Schedule({"layouts"})
                  /\ notice' = Toast("layout deleted")
    /\ UNCHANGED <<phase, now, cards, currentLayoutTitle, title, text, editingId,
                   editTitle, editText, expanded, showLibrary, docVars, storeVars>>
    /\ UNCHANGED sideVars

\* setLibraryTab('layouts'); setShowLibrary(true) and the two close buttons
setShowLibrary(b) ==
    /\ Idle
    /\ showLibrary' = b
    /\ notice' = NoNotice
    /\ UNCHANGED <<phase, now, cards, heap, layouts, currentLayoutTitle, title, text,
                   editingId, editTitle, editText, expanded, docVars, storeVars, pendingEffects>>
    /\ UNCHANGED sideVars

----------------------------------------------------------------------------
(* Files and JSON                                                          *)
(*                                                                         *)
(* A file is [k |-> "unreadable"] (text() rejects) or                      *)
(* [k |-> "text", json |-> <<>>] (not JSON) or                             *)
(* [k |-> "text", json |-> <<document>>].  A document is JNull, JArr(items)*)
(* or a JObject whose fields are absent (<<>>) or present (<<value>>).     *)
(* A record of an array is null (<<>>) or an object (<<fields>>).  A       *)
(* numeric field is absent, null, a number or a non-numeric string.        *)

Unreadable == [k |-> "unreadable"]
NotJSON == [k |-> "text", json |-> <<>>]
TextFile(doc) == [k |-> "text", json |-> <<doc>>]

JNull == [t |-> "null"]
JString == [t |-> "string"]
JArr(items) == [t |-> "array", items |-> items]
JObject(c, l, d, fo, fi) ==
    [t |-> "object", cards |-> c, layouts |-> l, docLib |-> d, folders |-> fo, files |-> fi]

JNum(n) == [k |-> "num", v |-> n]
JAbsent == [k |-> "absent", v |-> 0]
JNullNum == [k |-> "null", v |-> 0]

\* Unary plus: [nan, v]
ToNumber(j) ==
    IF j.k = "num" THEN [nan |-> FALSE, v |-> j.v]
    ELSE IF j.k = "null" THEN [nan |-> FALSE, v |-> 0]
    ELSE [nan |-> TRUE, v |-> 0]

\* Number.isFinite(+x) ? +x : d
FiniteOr(j, d) == IF ToNumber(j).nan THEN d ELSE ToNumber(j).v

\* Array.isArray on a field that may be absent
IsArrayField(f) == f # <<>> /\ f[1].t = "array"

\* JSON.stringify of a Card and of the object { cards }
CardToJSON(c) ==
    <<[id |-> <<c.id>>, title |-> <<c.title>>, text |-> <<c.text>>,
       createdAt |-> JNum(c.createdAt)]>>

CardsToJSON(cs) == JArr([i \in 1..Len(cs) |-> CardToJSON(cs[i])])

\* The file exportJSON downloads
exportJSONFile(cs) == TextFile(JObject(<<CardsToJSON(cs)>>, <<>>, <<>>, <<>>, <<>>))

\* Array.prototype.sort with (a, b) => a.createdAt - b.createdAt: stable
\* A sort that puts a card before the cards of equal createdAt already placed
SortByCreatedAtUnstable(cs) ==
    LET Insert(sorted, c) ==
            LET k == Cardinality({i \in 1..Len(sorted) : sorted[i].createdAt < c.createdAt})
            IN SubSeq(sorted, 1, k) \o <<c>> \o SubSeq(sorted, k + 1, Len(sorted))
        F[i \in 0..Len(cs)] == IF i = 0 THEN <<>> ELSE Insert(F[i - 1], cs[i])
    IN F[Len(cs)]

SortByCreatedAt(cs) ==
    LET Insert(sorted, c) ==
            LET k == Cardinality({i \in 1..Len(sorted) : sorted[i].createdAt <= c.createdAt})
            IN SubSeq(sorted, 1, k) \o <<c>> \o SubSeq(sorted, k + 1, Len(sorted))
        F[i \in 0..Len(cs)] == IF i = 0 THEN <<>> ELSE Insert(F[i - 1], cs[i])
    IN F[Len(cs)]

\* importJSON's map over data.cards at time t; idx is the tail of the generated id
NormalizeCard(rec, t, i) ==
    [id |-> Coalesce(rec[1].id, Id("c", <<t, i>>)),
     title |-> Coalesce(rec[1].title, Untitled),
     text |-> Coalesce(rec[1].text, <<>>),
     createdAt |-> FiniteOr(rec[1].createdAt, t - i)]

exportJSON ==
    /\ Idle
    /\ notice' = NoNotice
    /\ UNCHANGED <<phase, now, cardVars, docVars, storeVars, pendingEffects>>
    /\ UNCHANGED sideVars

\* Records of card files
FutureCard == <<[id |-> <<Id("x", <<1>>)>>, title |-> <<<<"f">>>>, text |-> <<<<"x">>>>,
                 createdAt |-> JNum(MaxClock + 5)]>>
OldCard == <<[id |-> <<Id("x", <<2>>)>>, title |-> <<>>, text |-> <<<<"y">>>>,
              createdAt |-> JNullNum]>>
BareCard == <<[id |-> <<>>, title |-> <<>>, text |-> <<>>, createdAt |-> JAbsent]>>
NullRecord == <<>>

\* importJSON that reads the fields of a record with c?.field, as the other
\* two importers do: a null record becomes a card of defaults
importJSONLenient(file) ==
    /\ Idle
    /\ now < MaxClock
    /\ now' = AfterDialog
    /\ IF file.k = "unreadable" \/ file.json = <<>>
       THEN /\ notice' = Alert("failed to read file")
            /\ UNCHANGED <<cards, heap, expanded, pendingEffects>>
       ELSE LET data == file.json[1]
            IN IF data.t # "object" \/ ~IsArrayField(data.cards)
               THEN /\ notice' = Alert("invalid file")
                    /\ UNCHANGED <<cards, heap, expanded, pendingEffects>>
               ELSE LET recs == data.cards[1].items
                        norm == SortByCreatedAt(
                                    [i \in 1..Len(recs) |->
                                        NormalizeCard(IF recs[i] = <<>> THEN BareCard
                                                      ELSE recs[i], now', i - 1)])
                        r == FreshRef(heap)
                    IN /\ cards' = r
                       /\ heap' = Collect((r :> norm) @@ heap, r, layouts)
                       /\ expanded' = {}
                       /\ Schedule({"cards"})
                       /\ notice' = Toast("imported")
    /\ UNCHANGED <<phase, layouts, currentLayoutTitle, title, text, editingId, editTitle,
                   editText, showLibrary, docVars, storeVars>>
    /\ UNCHANGED sideVars

importJSON(file) ==
    /\ Idle
    /\ now < MaxClock
    /\ now' = AfterDialog
    /\ IF file.k = "unreadable" \/ file.json = <<>>
       THEN /\ notice' = Alert("failed to read file")
            /\ UNCHANGED <<cards, heap, expanded, pendingEffects>>
       ELSE LET data == file.json[1]
            IN IF data.t # "object" \/ ~IsArrayField(data.cards)
               THEN /\ notice' = Alert("invalid file")
                    /\ UNCHANGED <<cards, heap, expanded, pendingEffects>>
               ELSE LET recs == data.cards[1].items
                    IN IF \E i \in 1..Len(recs) : recs[i] = <<>>
                       THEN \* c.id on null throws inside then(): caught by catch()
                            /\ notice' = Alert("failed to read file")
                            /\ UNCHANGED <<cards, heap, expanded, pendingEffects>>
                       ELSE LET norm == SortByCreatedAt(
                                    [i \in 1..Len(recs) |-> NormalizeCard(recs[i], now', i - 1)])
                                r == FreshRef(heap)
                            IN /\ cards' = r
                               /\ heap' = Collect((r :> norm) @@ heap, r, layouts)
                               /\ expanded' = {}
                               /\ Schedule({"cards"})
                               /\ notice' = Toast("imported")
    /\ UNCHANGED <<phase, layouts, currentLayoutTitle, title, text, editingId, editTitle,
                   editText, showLibrary, docVars, storeVars>>
    /\ UNCHANGED sideVars

----------------------------------------------------------------------------
(* Import of a library of layouts *)

\* A field of a record that may be null: l?.field
FieldOf(rec, f) == IF rec = <<>> THEN <<>> ELSE rec[1][f]
NumFieldOf(rec, f) == IF rec = <<>> THEN JAbsent ELSE rec[1][f]

\* The card normalisation of importLibraryLayouts (null records are tolerated)
NormalizeLayoutCard(rec, t, li, i) ==
    [id |-> Coalesce(FieldOf(rec, "id"), Id("c", <<t, li, i>>)),
     title |-> Coalesce(FieldOf(rec, "title"), Untitled),
     text |-> Coalesce(FieldOf(rec, "text"), <<>>),
     createdAt |-> FiniteOr(NumFieldOf(rec, "createdAt"), t - i)]

LayoutCards(l, t, li) ==
    LET cf == FieldOf(l, "cards")
    IN IF IsArrayField(cf)
       THEN SortByCreatedAt([i \in 1..Len(cf[1].items) |->
                                NormalizeLayoutCard(cf[1].items[i], t, li, i - 1)])
       ELSE <<>>

\* incoming.map(...) of importLibraryLayouts at time t: closure is the layouts
\* value the handler was created with, h the heap the new arrays are allocated in.
\* The result holds the new entries, the heap, and the titles seen so far.
NormalizeLayouts(incoming, closure, t, h) ==
    LET F[n \in 0..Len(incoming)] ==
            IF n = 0
            THEN [entries |-> <<>>, heap |-> h, titles |-> LayoutTitles(closure)]
            ELSE LET acc == F[n - 1]
                     l == incoming[n]
                     li == n - 1
                     r == FreshRef(acc.heap)
                     ttl == SuffixUntilFree(
                                OrElse(Trim(Coalesce(FieldOf(l, "title"), Untitled)), Untitled),
                                acc.titles)
                     entry == [id |-> Id("L", <<t, li>>), title |-> ttl,
                               savedAt |-> FiniteOr(NumFieldOf(l, "savedAt"), t - li),
                               cards |-> r]
                 IN [entries |-> Append(acc.entries, entry),
                     heap |-> (r :> LayoutCards(l, t, li)) @@ acc.heap,
                     titles |-> acc.titles \cup {ttl}]
    IN F[Len(incoming)]

\* Array.isArray(data) ? data : data?.layouts, absent (<<>>) when not an array
IncomingLayouts(data) ==
    IF data.t = "array" THEN <<data.items>>
    ELSE IF data.t = "object" /\ IsArrayField(data.layouts) THEN <<data.layouts[1].items>>
    ELSE <<>>

\* importLibraryLayouts that ends with setLayouts(normalized)
importLibraryLayoutsReplacing(file) ==
    /\ Idle
    /\ now < MaxClock
    /\ now' = AfterDialog
    /\ IF file.k = "unreadable"
       THEN /\ notice' = Alert("failed to read file")
            /\ UNCHANGED <<heap, layouts, pendingEffects>>
       ELSE IF file.json = <<>>
       THEN /\ notice' = Alert("invalid JSON")
            /\ UNCHANGED <<heap, layouts, pendingEffects>>
       ELSE IF IncomingLayouts(file.json[1]) = <<>>
       THEN /\ notice' = Alert("invalid library file")
            /\ UNCHANGED <<heap, layouts, pendingEffects>>
       ELSE LET res == NormalizeLayouts(IncomingLayouts(file.json[1])[1], layouts, now', heap)
            IN IF Len(res.entries) = 0
               THEN /\ notice' = Toast("no layouts found in file")
                    /\ UNCHANGED <<heap, layouts, pendingEffects>>
               ELSE /\ layouts' = res.entries
                    /\ heap' = Collect(res.heap, cards, layouts')
                    /\ Schedule({"layouts"})
                    /\ notice' = Toast("imported layouts")
    /\ UNCHANGED <<phase, cards, currentLayoutTitle, title, text, editingId, editTitle,
                   editText, expanded, showLibrary, docVars, storeVars>>
    /\ UNCHANGED sideVars

importLibraryLayouts(file) ==
    /\ Idle
    /\ now < MaxClock
    /\ now' = AfterDialog
    /\ IF file.k = "unreadable"
       THEN /\ notice' = Alert("failed to read file")
            /\ UNCHANGED <<heap, layouts, pendingEffects>>
       ELSE IF file.json = <<>>
       THEN /\ notice' = Alert("invalid JSON")
            /\ UNCHANGED <<heap, layouts, pendingEffects>>
       ELSE IF IncomingLayouts(file.json[1]) = <<>>
       THEN /\ notice' = Alert("invalid library file")
            /\ UNCHANGED <<heap, layouts, pendingEffects>>
       ELSE LET res == NormalizeLayouts(IncomingLayouts(file.json[1])[1], layouts, now', heap)
            IN IF Len(res.entries) = 0
               THEN /\ notice' = Toast("no layouts found in file")
                    /\ UNCHANGED <<heap, layouts, pendingEffects>>
               ELSE /\ layouts' = layouts \o res.entries
                    /\ heap' = Collect(res.heap, cards, layouts')
                    /\ Schedule({"layouts"})
                    /\ notice' = Toast("imported layouts")
    /\ UNCHANGED <<phase, cards, currentLayoutTitle, title, text, editingId, editTitle,
                   editText, expanded, showLibrary, docVars, storeVars>>
    /\ UNCHANGED sideVars

----------------------------------------------------------------------------
(* Document library: folders *)

All == [k |-> "all"]
Unfiled == [k |-> "unfiled"]
InFolder(id) == [k |-> "folder", id |-> id]

\* target === 'unfiled' || target === 'all' ? null : target
TargetFolderId(target) == IF target.k = "folder" THEN <<target.id>> ELSE <<>>

FolderNames(fs) == {fs[i].name : i \in 1..Len(fs)}
FolderIds(fs) == {fs[i].id : i \in 1..Len(fs)}

\* The component hangs: a while loop of a handler never ends
Hang == phase' = "hung"

createFolder(answer) ==
    /\ Idle
    /\ LET name == Trim(Coalesce(answer, <<>>))
       IN IF name = <<>>
          THEN /\ notice' = NoNotice
               /\ UNCHANGED <<now, docLib, activeFolder, pendingEffects>>
          ELSE /\ now < MaxClock
               /\ now' = AfterDialog
               /\ LET finalName == SuffixUntilFree(name, FolderNames(docLib.folders))
                      folder == [id |-> Id("F", <<now'>>), name |-> finalName,
                                 createdAt |-> now']
                  IN /\ docLib' = [docLib EXCEPT !.folders = Append(@, folder)]
                     /\ activeFolder' = InFolder(folder.id)
               /\ Schedule({"doclib"})
               /\ notice' = Toast("created folder")
    /\ UNCHANGED <<phase, cardVars, previewDocId, storeVars>>
    /\ UNCHANGED sideVars

renameFolder(folderId, answer) ==
    /\ Idle
    /\ LET hits == {i \in 1..Len(docLib.folders) : docLib.folders[i].id = folderId}
           name == Trim(Coalesce(answer, <<>>))
       IN IF hits = {} \/ name = <<>> \/ name = docLib.folders[FirstIdx(hits)].name
          THEN /\ notice' = NoNotice
               /\ UNCHANGED <<docLib, pendingEffects>>
          ELSE LET taken == {docLib.folders[i].name :
                                i \in {j \in 1..Len(docLib.folders) :
                                          docLib.folders[j].id # folderId}}
                   finalName == SuffixUntilFree(name, taken)
               IN /\ docLib' = [docLib EXCEPT !.folders =
                                   [i \in 1..Len(@) |->
                                       IF @[i].id = folderId
                                       THEN [@[i] EXCEPT !.name = finalName]
                                       ELSE @[i]]]
                  /\ Schedule({"doclib"})
                  /\ notice' = Toast("renamed folder")
    /\ UNCHANGED <<phase, now, cardVars, activeFolder, previewDocId, storeVars>>
    /\ UNCHANGED sideVars

\* deleteFolder that deletes the files of the folder with it
deleteFolderCascade(folderId, confirmed) ==
    /\ Idle
    /\ IF (\A i \in 1..Len(docLib.folders) : docLib.folders[i].id # folderId) \/ ~confirmed
       THEN /\ notice' = IF \A i \in 1..Len(docLib.folders) : docLib.folders[i].id # folderId
                       THEN NoNotice ELSE [kind |-> "confirm", msg |-> "declined"]
            /\ UNCHANGED <<now, docLib, activeFolder, pendingEffects>>
       ELSE /\ now < MaxClock
            /\ now' = AfterDialog
            /\ docLib' =
                  [folders |-> KeepIdx(docLib.folders,
                                  {i \in 1..Len(docLib.folders) :
                                      docLib.folders[i].id # folderId}),
                   files |-> KeepIdx(docLib.files,
                                  {i \in 1..Len(docLib.files) :
                                      docLib.files[i].folderId # <<folderId>>})]
            /\ activeFolder' = IF activeFolder = InFolder(folderId) THEN Unfiled
                               ELSE activeFolder
            /\ Schedule({"doclib"})
            /\ notice' = Toast("folder deleted")
    /\ UNCHANGED <<phase, cardVars, previewDocId, storeVars>>
    /\ UNCHANGED sideVars

\* deleteFolder without the line  if (activeFolder === folderId) setActiveFolder('unfiled')
deleteFolderKeepActive(folderId, confirmed) ==
    /\ Idle
    /\ IF (\A i \in 1..Len(docLib.folders) : docLib.folders[i].id # folderId) \/ ~confirmed
       THEN /\ notice' = IF \A i \in 1..Len(docLib.folders) : docLib.folders[i].id # folderId
                       THEN NoNotice ELSE [kind |-> "confirm", msg |-> "declined"]
            /\ UNCHANGED <<now, docLib, activeFolder, pendingEffects>>
       ELSE /\ now < MaxClock
            /\ now' = AfterDialog
            /\ docLib' =
                  [folders |-> KeepIdx(docLib.folders,
                                  {i \in 1..Len(docLib.folders) :
                                      docLib.folders[i].id # folderId}),
                   files |-> [i \in 1..Len(docLib.files) |->
                                 IF docLib.files[i].folderId = <<folderId>>
                                 THEN [docLib.files[i] EXCEPT !.folderId = <<>>,
                                                              !.updatedAt = now']
                                 ELSE docLib.files[i]]]
            /\ activeFolder' = activeFolder
            /\ Schedule({"doclib"})
            /\ notice' = Toast("folder deleted")
    /\ UNCHANGED <<phase, cardVars, previewDocId, storeVars>>
    /\ UNCHANGED sideVars

deleteFolder(folderId, confirmed) ==
    /\ Idle
    /\ IF (\A i \in 1..Len(docLib.folders) : docLib.folders[i].id # folderId) \/ ~confirmed
       THEN /\ notice' = IF \A i \in 1..Len(docLib.folders) : docLib.folders[i].id # folderId
                       THEN NoNotice ELSE [kind |-> "confirm", msg |-> "declined"]
            /\ UNCHANGED <<now, docLib, activeFolder, pendingEffects>>
       ELSE /\ now < MaxClock
            /\ now' = AfterDialog
            /\ docLib' =
                  [folders |-> KeepIdx(docLib.folders,
                                  {i \in 1..Len(docLib.folders) :
                                      docLib.folders[i].id # folderId}),
                   files |-> [i \in 1..Len(docLib.files) |->
                                 IF docLib.files[i].folderId = <<folderId>>
                                 THEN [docLib.files[i] EXCEPT !.folderId = <<>>,
                                                              !.updatedAt = now']
                                 ELSE docLib.files[i]]]
            /\ activeFolder' = IF activeFolder = InFolder(folderId) THEN Unfiled
                               ELSE activeFolder
            /\ Schedule({"doclib"})
            /\ notice' = Toast("folder deleted")
    /\ UNCHANGED <<phase, cardVars, previewDocId, storeVars>>
    /\ UNCHANGED sideVars

\* The three folder filter buttons
setActiveFolder(target) ==
    /\ Idle
    /\ activeFolder' = target
    /\ notice' = NoNotice
    /\ UNCHANGED <<phase, now, cardVars, docLib, previewDocId, storeVars, pendingEffects>>
    /\ UNCHANGED sideVars

----------------------------------------------------------------------------
(* Document library: files *)

DotTxt == <<".", "t", "x", "t">>

\* String.prototype.toLowerCase on the characters used here
ToLowerCase(s) ==
    [i \in 1..Len(s) |-> IF s[i] = "T" THEN "t" ELSE IF s[i] = "X" THEN "x" ELSE s[i]]

EndsWith(s, suf) ==
    Len(s) >= Len(suf) /\ SubSeq(s, Len(s) - Len(suf) + 1, Len(s)) = suf

\* name.replace(/\s+/g, ' '): every run of white space becomes one space
CollapseSpaces(s) ==
    KeepIdx(s, {i \in 1..Len(s) : ~(s[i] = Sp /\ i > 1 /\ s[i - 1] = Sp)})

\* lastIndexOf('.') + 1: the position of the last dot, 0 when there is none
LastDot(s) ==
    LET dots == {i \in 1..Len(s) : s[i] = "."}
    IN IF dots = {} THEN 0 ELSE CHOOSE i \in dots : \A j \in dots : j <= i

\* The loop  while (names.has(name)) name = `${stem}-2${ext}`  started at name:
\* the name it ends with, or nothing when it never ends (the stem is not
\* extended, so a second round assigns the same name again)
SuffixOnce(name, names) ==
    LET dot == LastDot(name) - 1
        stem == IF dot > 0 THEN SubSeq(name, 1, dot) ELSE name
        ext == IF dot > 0 THEN SubSeq(name, dot + 1, Len(name)) ELSE <<>>
        second == stem \o Suffix2 \o ext
    IN IF name \notin names THEN <<name>>
       ELSE IF second \notin names THEN <<second>>
       ELSE <<>>

NamesIn(files, folderId) ==
    {files[i].name : i \in {j \in 1..Len(files) : files[j].folderId = folderId}}

uniqueFileName(base, folderId, files) == SuffixOnce(base, NamesIn(files, folderId))

\* A picked file is [name, content, readable]; the batch is a sequence of them.
\* Every read callback sees the docLib of the render the handler belongs to.
TxtFiles(fileList) ==
    KeepIdx(fileList, {i \in 1..Len(fileList) :
                          EndsWith(ToLowerCase(fileList[i].name), DotTxt)})

NewDocs(files, folderId, t, closure) ==
    [i \in 1..Len(files) |->
        LET safeName == OrElse(Trim(CollapseSpaces(files[i].name)), <<"D">> \o DotTxt)
        IN [id |-> Id("D", <<t, i - 1>>),
            name |-> uniqueFileName(safeName, folderId, closure),
            content |-> files[i].content,
            createdAt |-> t, updatedAt |-> t, folderId |-> folderId]]

uploadTxtFiles(fileList, target) ==
    /\ Idle
    /\ now < MaxClock
    /\ now' = AfterDialog
    /\ LET files == TxtFiles(fileList)
           docs == NewDocs(files, TargetFolderId(target), now', docLib.files)
       IN IF Len(files) = 0
          THEN /\ notice' = Alert("please select .txt files")
               /\ UNCHANGED <<phase, docLib, pendingEffects>>
          ELSE IF \E i \in 1..Len(files) : ~files[i].readable
          THEN /\ notice' = Alert("failed to read one or more files")
               /\ UNCHANGED <<phase, docLib, pendingEffects>>
          ELSE IF \E i \in 1..Len(docs) : docs[i].name = <<>>
          THEN /\ Hang
               /\ notice' = NoNotice
               /\ UNCHANGED <<docLib, pendingEffects>>
          ELSE /\ docLib' = [docLib EXCEPT !.files =
                                @ \o [i \in 1..Len(docs) |->
                                         [docs[i] EXCEPT !.name = docs[i].name[1]]]]
               /\ Schedule({"doclib"})
               /\ notice' = Toast("uploaded")
               /\ UNCHANGED phase
    /\ UNCHANGED <<cardVars, activeFolder, previewDocId, storeVars>>
    /\ UNCHANGED sideVars

renameFile(fileId, answer) ==
    /\ Idle
    /\ LET hits == {i \in 1..Len(docLib.files) : docLib.files[i].id = fileId}
           name == Trim(Coalesce(answer, <<>>))
       IN IF hits = {} \/ name = <<>> \/ name = docLib.files[FirstIdx(hits)].name
          THEN /\ notice' = NoNotice
               /\ UNCHANGED <<phase, now, docLib, pendingEffects>>
          ELSE LET unique == uniqueFileName(name, docLib.files[FirstIdx(hits)].folderId,
                                            docLib.files)
               IN /\ now < MaxClock
                  /\ now' = AfterDialog
                  /\ IF unique = <<>>
                     THEN /\ Hang
                          /\ notice' = NoNotice
                          /\ UNCHANGED <<docLib, pendingEffects>>
                     ELSE /\ docLib' = [docLib EXCEPT !.files =
                                           [i \in 1..Len(@) |->
                                               IF @[i].id = fileId
                                               THEN [@[i] EXCEPT !.name = unique[1],
                                                                 !.updatedAt = now']
                                               ELSE @[i]]]
                          /\ Schedule({"doclib"})
                          /\ notice' = Toast("file renamed")
                          /\ UNCHANGED phase
    /\ UNCHANGED <<cardVars, activeFolder, previewDocId, storeVars>>
    /\ UNCHANGED sideVars

\* deleteFile without the line  if (!confirm(...)) return
deleteFileUnasked(fileId, confirmed) ==
    /\ Idle
    /\ IF (\A i \in 1..Len(docLib.files) : docLib.files[i].id # fileId)
       THEN /\ notice' = NoNotice
            /\ UNCHANGED <<docLib, previewDocId, pendingEffects>>
       ELSE /\ docLib' = [docLib EXCEPT !.files =
                             KeepIdx(@, {i \in 1..Len(@) : @[i].id # fileId})]
            /\ previewDocId' = IF previewDocId = <<fileId>> THEN <<>> ELSE previewDocId
            /\ Schedule({"doclib"})
            /\ notice' = Toast("file deleted")
    /\ UNCHANGED <<phase, now, cardVars, activeFolder, storeVars>>
    /\ UNCHANGED sideVars

deleteFile(fileId, confirmed) ==
    /\ Idle
    /\ IF (\A i \in 1..Len(docLib.files) : docLib.files[i].id # fileId) \/ ~confirmed
       THEN /\ notice' = IF \A i \in 1..Len(docLib.files) : docLib.files[i].id # fileId
                       THEN NoNotice ELSE [kind |-> "confirm", msg |-> "declined"]
            /\ UNCHANGED <<docLib, previewDocId, pendingEffects>>
       ELSE /\ docLib' = [docLib EXCEPT !.files =
                             KeepIdx(@, {i \in 1..Len(@) : @[i].id # fileId})]
            /\ previewDocId' = IF previewDocId = <<fileId>> THEN <<>> ELSE previewDocId
            /\ Schedule({"doclib"})
            /\ notice' = Toast("file deleted")
    /\ UNCHANGED <<phase, now, cardVars, activeFolder, storeVars>>
    /\ UNCHANGED sideVars

moveFile(fileId, newFolder) ==
    /\ Idle
    /\ docLib' = [docLib EXCEPT !.files =
                     [i \in 1..Len(@) |->
                         IF @[i].id = fileId
                         THEN [@[i] EXCEPT !.folderId = TargetFolderId(newFolder),
                                           !.updatedAt = now]
                         ELSE @[i]]]
    /\ Schedule({"doclib"})
    /\ notice' = Toast("moved")
    /\ UNCHANGED <<phase, now, cardVars, activeFolder, previewDocId, storeVars>>
    /\ UNCHANGED sideVars

\* The Open button of a file and the two close buttons of the preview
setPreviewDocId(v) ==
    /\ Idle
    /\ previewDocId' = v
    /\ notice' = NoNotice
    /\ UNCHANGED <<phase, now, cardVars, docLib, activeFolder, storeVars, pendingEffects>>
    /\ UNCHANGED sideVars

----------------------------------------------------------------------------
(* Import of a document library *)

ImportedFolder == <<"I", "F">>              \* the literal 'Imported Folder'
ImportedTxt == <<"I">> \o DotTxt            \* the literal 'Imported.txt'
\* `Imported ${now + i}.txt`
ImportedNumbered(n) ==
    <<"I", <<"0", "1", "2", "3", "4", "5", "6", "7", "8", "9">>[(n % 10) + 1]>> \o DotTxt

\* A field is truthy when it is present with an array or a non-empty value
\* data?.docLib && data.docLib.folders && data.docLib.files ? data.docLib
\*   : (data?.folders && data?.files ? data : undefined)
DocPayload(data) ==
    IF data.t # "object" THEN <<>>
    ELSE IF /\ data.docLib # <<>>
            /\ data.docLib[1].t = "object"
            /\ data.docLib[1].folders # <<>>
            /\ data.docLib[1].files # <<>>
         THEN <<data.docLib[1]>>
    ELSE IF data.folders # <<>> /\ data.files # <<>> THEN <<data>>
    ELSE <<>>

\* NormalizeFolders without the line  existingFolderNames.add(name)
NormalizeFoldersNoAdd(recs, closure, t) ==
    LET F[n \in 0..Len(recs)] ==
            IF n = 0
            THEN [folders |-> <<>>, names |-> FolderNames(closure), map |-> <<>>]
            ELSE LET acc == F[n - 1]
                     f == recs[n]
                     i == n - 1
                     name == SuffixUntilFree(
                                 OrElse(Trim(Coalesce(FieldOf(f, "name"), ImportedFolder)),
                                        ImportedFolder),
                                 acc.names)
                     id == Id("F", <<t, i>>)
                     key == Coalesce(FieldOf(f, "id"), Id("F_in", <<i>>))
                 IN [folders |-> Append(acc.folders,
                                    [id |-> id, name |-> name,
                                     createdAt |-> FiniteOr(NumFieldOf(f, "createdAt"), t - i)]),
                     names |-> acc.names,
                     map |-> Append(acc.map, <<key, id>>)]
    IN F[Len(recs)]

\* payload.folders.map(...) at time t: the new folders and the id map, in which a
\* later folder with the same incoming id replaces an earlier one (Map.set)
NormalizeFolders(recs, closure, t) ==
    LET F[n \in 0..Len(recs)] ==
            IF n = 0
            THEN [folders |-> <<>>, names |-> FolderNames(closure), map |-> <<>>]
            ELSE LET acc == F[n - 1]
                     f == recs[n]
                     i == n - 1
                     name == SuffixUntilFree(
                                 OrElse(Trim(Coalesce(FieldOf(f, "name"), ImportedFolder)),
                                        ImportedFolder),
                                 acc.names)
                     id == Id("F", <<t, i>>)
                     key == Coalesce(FieldOf(f, "id"), Id("F_in", <<i>>))
                 IN [folders |-> Append(acc.folders,
                                    [id |-> id, name |-> name,
                                     createdAt |-> FiniteOr(NumFieldOf(f, "createdAt"), t - i)]),
                     names |-> acc.names \cup {name},
                     map |-> Append(acc.map, <<key, id>>)]
    IN F[Len(recs)]

\* folderIdMap.get(key) ?? null
MapGet(map, key) ==
    LET hits == {i \in 1..Len(map) : map[i][1] = key}
    IN IF hits = {} THEN <<>>
       ELSE <<map[CHOOSE i \in hits : \A j \in hits : j <= i][2]>>

uniqueNameForImport(base, folderId, files) ==
    SuffixOnce(OrElse(Trim(base), ImportedTxt), NamesIn(files, folderId))

\* NormalizeFiles that keeps the incoming folderId when the map has no entry
\* for it: folderIdMap.get(String(inFolder)) ?? inFolder
NormalizeFilesKeepId(recs, map, closure, t) ==
    [n \in 1..Len(recs) |->
        LET fi == recs[n]
            i == n - 1
            inFolder == FieldOf(fi, "folderId")
            mappedFolder == IF inFolder = <<>> THEN <<>>
                            ELSE IF MapGet(map, inFolder[1]) = <<>> THEN inFolder
                            ELSE MapGet(map, inFolder[1])
            nameRaw == Coalesce(FieldOf(fi, "name"), ImportedNumbered(t + i))
        IN [id |-> Id("D", <<t, i>>),
            name |-> uniqueNameForImport(nameRaw, mappedFolder, closure),
            content |-> Coalesce(FieldOf(fi, "content"), <<>>),
            createdAt |-> FiniteOr(NumFieldOf(fi, "createdAt"), t - i),
            updatedAt |-> FiniteOr(NumFieldOf(fi, "updatedAt"), t - i),
            folderId |-> mappedFolder]]

NormalizeFiles(recs, map, closure, t) ==
    [n \in 1..Len(recs) |->
        LET fi == recs[n]
            i == n - 1
            inFolder == FieldOf(fi, "folderId")
            mappedFolder == IF inFolder = <<>> THEN <<>> ELSE MapGet(map, inFolder[1])
            nameRaw == Coalesce(FieldOf(fi, "name"), ImportedNumbered(t + i))
        IN [id |-> Id("D", <<t, i>>),
            name |-> uniqueNameForImport(nameRaw, mappedFolder, closure),
            content |-> Coalesce(FieldOf(fi, "content"), <<>>),
            createdAt |-> FiniteOr(NumFieldOf(fi, "createdAt"), t - i),
            updatedAt |-> FiniteOr(NumFieldOf(fi, "updatedAt"), t - i),
            folderId |-> mappedFolder]]

importDocLibrary(file) ==
    /\ Idle
    /\ now < MaxClock
    /\ now' = AfterDialog
    /\ IF file.k = "unreadable"
       THEN /\ notice' = Alert("failed to read file")
            /\ UNCHANGED <<phase, docLib, pendingEffects>>
       ELSE IF file.json = <<>>
       THEN /\ notice' = Alert("invalid JSON")
            /\ UNCHANGED <<phase, docLib, pendingEffects>>
       ELSE IF \/ DocPayload(file.json[1]) = <<>>
               \/ ~IsArrayField(DocPayload(file.json[1])[1].folders)
               \/ ~IsArrayField(DocPayload(file.json[1])[1].files)
       THEN /\ notice' = Alert("invalid document library file")
            /\ UNCHANGED <<phase, docLib, pendingEffects>>
       ELSE LET payload == DocPayload(file.json[1])[1]
                nf == NormalizeFolders(payload.folders[1].items, docLib.folders, now')
                files == NormalizeFiles(payload.files[1].items, nf.map, docLib.files, now')
            IN IF \E i \in 1..Len(files) : files[i].name = <<>>
               THEN /\ Hang
                    /\ notice' = NoNotice
                    /\ UNCHANGED <<docLib, pendingEffects>>
               ELSE /\ docLib' =
                          [folders |-> docLib.folders \o nf.folders,
                           files |-> docLib.files \o
                                       [i \in 1..Len(files) |->
                                           [files[i] EXCEPT !.name = files[i].name[1]]]]
                    /\ Schedule({"doclib"})
                    /\ notice' = Toast("imported files and folders")
                    /\ UNCHANGED phase
    /\ UNCHANGED <<cardVars, activeFolder, previewDocId, storeVars>>
    /\ UNCHANGED sideVars

----------------------------------------------------------------------------
(* Local storage: the state initializers and the persist effects *)

Keys == <<"cards", "layouts", "doclib">>   \* copyai_cards, copyai_layouts, copyai_doclib

Absent == [k |-> "absent"]                 \* getItem returns null
EmptyEntry == [k |-> "empty"]              \* the empty string
Garbage == [k |-> "garbage"]               \* a string that is not JSON
Stored(doc) == [k |-> "json", v |-> doc]

\* JSON.stringify of the layouts and of the document library
LayoutsToJSON(ls, h) ==
    JArr([i \in 1..Len(ls) |->
            <<[id |-> <<ls[i].id>>, title |-> <<ls[i].title>>,
               savedAt |-> JNum(ls[i].savedAt),
               cards |-> <<CardsToJSON(h[ls[i].cards])>>]>>])

FolderToJSON(f) == <<[id |-> <<f.id>>, name |-> <<f.name>>, createdAt |-> JNum(f.createdAt)]>>
FileToJSON(f) ==
    <<[id |-> <<f.id>>, name |-> <<f.name>>, content |-> <<f.content>>,
       createdAt |-> JNum(f.createdAt), updatedAt |-> JNum(f.updatedAt),
       folderId |-> f.folderId]>>

DocLibToJSON(d) ==
    JObject(<<>>, <<>>, <<>>,
            <<JArr([i \in 1..Len(d.folders) |-> FolderToJSON(d.folders[i])])>>,
            <<JArr([i \in 1..Len(d.files) |-> FileToJSON(d.files[i])])>>)

\* JSON.parse(raw) as Card[] and so on: the value is taken as it is
ParseCards(doc) ==
    [i \in 1..Len(doc.items) |->
        [id |-> doc.items[i][1].id[1], title |-> doc.items[i][1].title[1],
         text |-> doc.items[i][1].text[1], createdAt |-> doc.items[i][1].createdAt.v]]

ParseDocLib(doc) ==
    [folders |-> [i \in 1..Len(doc.folders[1].items) |->
                     LET f == doc.folders[1].items[i][1]
                     IN [id |-> f.id[1], name |-> f.name[1], createdAt |-> f.createdAt.v]],
     files |-> [i \in 1..Len(doc.files[1].items) |->
                   LET f == doc.files[1].items[i][1]
                   IN [id |-> f.id[1], name |-> f.name[1], content |-> f.content[1],
                       createdAt |-> f.createdAt.v, updatedAt |-> f.updatedAt.v,
                       folderId |-> f.folderId]]]

\* try { raw = getItem(key); if (raw) return JSON.parse(raw) } catch {} return default:
\* the document read, or nothing
ReadEntry(key) ==
    IF medium = "denied" THEN <<>>
    ELSE IF storage[key].k = "json" THEN <<storage[key].v>>
    ELSE <<>>

InitialCards == IF ReadEntry("cards") = <<>> THEN <<>> ELSE ParseCards(ReadEntry("cards")[1])

\* The parsed layouts: every layout gets an array of its own, at reference i + 1
InitialLayouts ==
    IF ReadEntry("layouts") = <<>> THEN <<>>
    ELSE LET items == ReadEntry("layouts")[1].items
         IN [i \in 1..Len(items) |->
                [id |-> items[i][1].id[1], title |-> items[i][1].title[1],
                 savedAt |-> items[i][1].savedAt.v, cards |-> i + 1]]

InitialHeap ==
    LET items == IF ReadEntry("layouts") = <<>> THEN <<>> ELSE ReadEntry("layouts")[1].items
    IN [r \in 1..(Len(items) + 1) |->
           IF r = 1 THEN InitialCards ELSE ParseCards(items[r - 1][1].cards[1])]

InitialDocLib ==
    IF ReadEntry("doclib") = <<>> THEN [folders |-> <<>>, files |-> <<>>]
    ELSE ParseDocLib(ReadEntry("doclib")[1])

\* The useState initializers and the first render
Mount ==
    /\ phase = "unmounted"
    /\ phase' = "ready"
    /\ cards' = 1
    /\ heap' = InitialHeap
    /\ layouts' = InitialLayouts
    /\ docLib' = InitialDocLib
    /\ currentLayoutTitle' = <<>>
    /\ title' = <<>>
    /\ text' = <<>>
    /\ editingId' = <<>>
    /\ editTitle' = <<>>
    /\ editText' = <<>>
    /\ expanded' = {}
    /\ showLibrary' = FALSE
    /\ activeFolder' = All
    /\ previewDocId' = <<>>
    /\ pendingEffects' = {"cards", "layouts", "doclib"}
    /\ notice' = NoNotice
    /\ UNCHANGED <<now, storeVars>>
    /\ UNCHANGED sideVars

\* JSON.stringify of the state a key persists
Serialized(key) ==
    IF key = "cards" THEN CardsToJSON(Cards)
    ELSE IF key = "layouts" THEN LayoutsToJSON(layouts, heap)
    ELSE DocLibToJSON(docLib)

\* The effects of one render run in the order they are declared
FirstPending == Keys[FirstIdx({i \in 1..3 : Keys[i] \in pendingEffects})]

\* The persist effects with an empty dependency list: each writes after the
\* first render only
PersistEffectMountOnly(key, throws) ==
    /\ phase = "ready"
    /\ pendingEffects # {}
    /\ key = FirstPending
    /\ throws => medium # "ok"
    /\ medium = "denied" => throws
    /\ storage' = IF throws \/ lastWrite[key] # "none"
                  THEN storage ELSE [storage EXCEPT ![key] = Stored(Serialized(key))]
    /\ lastWrite' = [lastWrite EXCEPT ![key] = IF throws THEN "failed" ELSE "ok"]
    /\ pendingEffects' = pendingEffects \ {key}
    /\ notice' = NoNotice
    /\ UNCHANGED <<phase, now, cardVars, docVars, medium>>
    /\ UNCHANGED sideVars

\* The persist effects with  catch { alert('Could not save') }
PersistEffectAlerting(key, throws) ==
    /\ phase = "ready"
    /\ pendingEffects # {}
    /\ key = FirstPending
    /\ throws => medium # "ok"
    /\ medium = "denied" => throws
    /\ storage' = IF throws THEN storage ELSE [storage EXCEPT ![key] = Stored(Serialized(key))]
    /\ lastWrite' = [lastWrite EXCEPT ![key] = IF throws THEN "failed" ELSE "ok"]
    /\ pendingEffects' = pendingEffects \ {key}
    /\ notice' = IF throws THEN Alert("could not save") ELSE NoNotice
    /\ UNCHANGED <<phase, now, cardVars, docVars, medium>>
    /\ UNCHANGED sideVars

\* try { localStorage.setItem(key, JSON.stringify(state)) } catch {}
PersistEffect(key, throws) ==
    /\ phase = "ready"
    /\ pendingEffects # {}
    /\ key = FirstPending
    /\ throws => medium # "ok"
    /\ medium = "denied" => throws
    /\ storage' = IF throws THEN storage ELSE [storage EXCEPT ![key] = Stored(Serialized(key))]
    /\ lastWrite' = [lastWrite EXCEPT ![key] = IF throws THEN "failed" ELSE "ok"]
    /\ pendingEffects' = pendingEffects \ {key}
    /\ notice' = NoNotice
    /\ UNCHANGED <<phase, now, cardVars, docVars, medium>>
    /\ UNCHANGED sideVars

\* The page is closed and opened again
Reload ==
    /\ Idle
    /\ phase' = "unmounted"
    /\ cards' = 1
    /\ heap' = (1 :> <<>>)
    /\ layouts' = <<>>
    /\ docLib' = [folders |-> <<>>, files |-> <<>>]
    /\ currentLayoutTitle' = <<>>
    /\ title' = <<>>
    /\ text' = <<>>
    /\ editingId' = <<>>
    /\ editTitle' = <<>>
    /\ editText' = <<>>
    /\ expanded' = {}
    /\ showLibrary' = FALSE
    /\ activeFolder' = All
    /\ previewDocId' = <<>>
    /\ notice' = NoNotice
    /\ UNCHANGED <<now, storeVars, pendingEffects>>
    /\ reads' = <<>>
    /\ clip' = [clip EXCEPT !.pending = <<>>]
    /\ UNCHANGED boxes

\* Time passes
Tick ==
    /\ Idle
    /\ now < MaxClock
    /\ now' = now + 1
    /\ UNCHANGED <<phase, cardVars, docVars, storeVars, pendingEffects, notice>>
    /\ UNCHANGED sideVars

----------------------------------------------------------------------------
(* The clipboard *)

\* async copyNow(value): writeText is started at once; what follows the await
\* runs when the write has settled
copyNow(value) ==
    /\ Idle
    /\ Len(clip.pending) < MaxPending
    /\ clip' = [clip EXCEPT !.pending = Append(@, [by |-> "copyNow", value |-> value])]
    /\ notice' = NoNotice
    /\ UNCHANGED <<phase, now, cardVars, docVars, storeVars, pendingEffects, boxes, reads>>

\* copyText(text) of the box page: writeText is started, its promise is
\* dropped, and the dialog is shown at once
copyText(value) ==
    /\ Len(clip.pending) < MaxPending
    /\ clip' = [clip EXCEPT !.pending = Append(@, [by |-> "copyText", value |-> value])]
    /\ notice' = Alert("copied!")
    /\ UNCHANGED <<phase, now, cardVars, docVars, storeVars, pendingEffects, boxes, reads>>

\* The oldest clipboard write settles: it is fulfilled (ok) or rejected
settleWrite(ok) ==
    /\ clip.pending # <<>>
    /\ LET w == Head(clip.pending)
       IN /\ w.by = "copyNow" => Idle
          /\ clip' = [content |-> IF ok THEN w.value ELSE clip.content,
                      pending |-> Tail(clip.pending),
                      unhandled |-> clip.unhandled \/ (~ok /\ w.by = "copyText")]
          /\ notice' = IF w.by = "copyNow"
                       THEN IF ok THEN Toast("copied") ELSE Alert("clipboard failed")
                       ELSE NoNotice
    /\ UNCHANGED <<phase, now, cardVars, docVars, storeVars, pendingEffects, boxes, reads>>

\* What a click can copy: the text of a card that is not being edited, the
\* content of the previewed file
Copyable ==
    {Cards[i].text : i \in {j \in 1..Len(Cards) : editingId # <<Cards[j].id>>}}
        \cup {docLib.files[i].content :
                 i \in {j \in 1..Len(docLib.files) : previewDocId = <<docLib.files[j].id>>}}

----------------------------------------------------------------------------
(* File reads that settle later: file.text().then(...) *)

\* A pending read keeps what the callback closed over: the layouts and the
\* files of the render in which the handler was called
PendingRead(kind, file, batch, folderId) ==
    [kind |-> kind, file |-> file, batch |-> batch, folderId |-> folderId,
     layouts |-> layouts, files |-> docLib.files]

\* importLibraryLayouts up to file.text(): the file picker has been answered
startImportLibrary(file) ==
    /\ Idle
    /\ now < MaxClock
    /\ now' = AfterDialog
    /\ Len(reads) < MaxPending
    /\ reads' = Append(reads, PendingRead("library", file, <<>>, <<>>))
    /\ notice' = NoNotice
    /\ UNCHANGED <<phase, cardVars, docVars, storeVars, pendingEffects, boxes, clip>>

\* The callback of importLibraryLayouts, for the i-th pending read
settleImportLibrary(i) ==
    /\ Idle
    /\ i \in 1..Len(reads)
    /\ reads[i].kind = "library"
    /\ reads' = KeepIdx(reads, 1..Len(reads) \ {i})
    /\ LET file == reads[i].file
       IN IF file.k = "unreadable"
          THEN /\ notice' = Alert("failed to read file")
               /\ UNCHANGED <<heap, layouts, pendingEffects>>
          ELSE IF file.json = <<>>
          THEN /\ notice' = Alert("invalid JSON")
               /\ UNCHANGED <<heap, layouts, pendingEffects>>
          ELSE IF IncomingLayouts(file.json[1]) = <<>>
          THEN /\ notice' = Alert("invalid library file")
               /\ UNCHANGED <<heap, layouts, pendingEffects>>
          ELSE LET res == NormalizeLayouts(IncomingLayouts(file.json[1])[1],
                                           reads[i].layouts, now, heap)
               IN IF Len(res.entries) = 0
                  THEN /\ notice' = Toast("no layouts found in file")
                       /\ UNCHANGED <<heap, layouts, pendingEffects>>
                  ELSE /\ layouts' = layouts \o res.entries
                       /\ heap' = Collect(res.heap, cards, layouts')
                       /\ Schedule({"layouts"})
                       /\ notice' = Toast("imported layouts")
    /\ UNCHANGED <<phase, now, cards, currentLayoutTitle, title, text, editingId, editTitle,
                   editText, expanded, showLibrary, docVars, storeVars, boxes, clip>>

\* uploadTxtFiles up to the reads of the files
startUpload(fileList, target) ==
    /\ Idle
    /\ now < MaxClock
    /\ now' = AfterDialog
    /\ IF Len(TxtFiles(fileList)) = 0
       THEN /\ notice' = Alert("please select .txt files")
            /\ UNCHANGED reads
       ELSE /\ Len(reads) < MaxPending
            /\ reads' = Append(reads, PendingRead("upload", Unreadable, TxtFiles(fileList),
                                                  TargetFolderId(target)))
            /\ notice' = NoNotice
    /\ UNCHANGED <<phase, cardVars, docVars, storeVars, pendingEffects, boxes, clip>>

\* The callbacks of uploadTxtFiles, for the i-th pending read: the reads of
\* the batch have settled
settleUpload(i) ==
    /\ Idle
    /\ i \in 1..Len(reads)
    /\ reads[i].kind = "upload"
    /\ reads' = KeepIdx(reads, 1..Len(reads) \ {i})
    /\ LET files == reads[i].batch
           docs == NewDocs(files, reads[i].folderId, now, reads[i].files)
       IN IF \E j \in 1..Len(files) : ~files[j].readable
          THEN /\ notice' = Alert("failed to read one or more files")
               /\ UNCHANGED <<phase, docLib, pendingEffects>>
          ELSE IF \E j \in 1..Len(docs) : docs[j].name = <<>>
          THEN /\ Hang
               /\ notice' = NoNotice
               /\ UNCHANGED <<docLib, pendingEffects>>
          ELSE /\ docLib' = [docLib EXCEPT !.files =
                                @ \o [j \in 1..Len(docs) |->
                                         [docs[j] EXCEPT !.name = docs[j].name[1]]]]
               /\ Schedule({"doclib"})
               /\ notice' = Toast("uploaded")
               /\ UNCHANGED phase
    /\ UNCHANGED <<now, cardVars, activeFolder, previewDocId, storeVars, boxes, clip>>

----------------------------------------------------------------------------
(* The page with its cards and layouts *)

\* useState([...]) of the box page: three boxes in a row
InitialBoxes ==
    <<[id |-> 1, x |-> 20, y |-> 20, text |-> <<"P", "1">>],
      [id |-> 2, x |-> 260, y |-> 20, text |-> <<"P", "2">>],
      [id |-> 3, x |-> 500, y |-> 20, text |-> <<"P", "3">>]>>

EmptyStorage == [key \in {"cards", "layouts", "doclib"} |-> Absent]

\* Before the component is mounted: nothing is stored, storage works
InitWith(st, md) ==
    /\ phase = "unmounted"
    /\ now = 0
    /\ cards = 1
    /\ heap = (1 :> <<>>)
    /\ layouts = <<>>
    /\ currentLayoutTitle = <<>>
    /\ title = <<>>
    /\ text = <<>>
    /\ editingId = <<>>
    /\ editTitle = <<>>
    /\ editText = <<>>
    /\ expanded = {}
    /\ showLibrary = FALSE
    /\ docLib = [folders |-> <<>>, files |-> <<>>]
    /\ activeFolder = All
    /\ previewDocId = <<>>
    /\ storage = st
    /\ medium = md
    /\ lastWrite = [key \in {"cards", "layouts", "doclib"} |-> "none"]
    /\ pendingEffects = {}
    /\ notice = NoNotice
    /\ boxes = InitialBoxes
    /\ clip = [content |-> <<>>, pending |-> <<>>, unhandled |-> FALSE]
    /\ reads = <<>>

Init == InitWith(EmptyStorage, "ok")

\* What the user types and answers
FormInputs == {<<<<>>, <<Sp>>>>, <<<<Sp, "a">>, <<"x">>>>}
EditInputs == {<<<<Sp>>, <<"y">>>>}
PromptAnswers == {<<>>, <<<<>>>>, <<<<"a">>>>, <<<<Sp, "a">>>>, <<<<"a", "-", "2">>>>}

CardIds == {Cards[i].id : i \in 1..Len(Cards)}
LayoutIds == {layouts[i].id : i \in 1..Len(layouts)}

CardsFile(recs) == TextFile(JObject(<<JArr(recs)>>, <<>>, <<>>, <<>>, <<>>))

BadCardFiles ==
    {Unreadable, NotJSON, TextFile(JNull), TextFile(JArr(<<BareCard>>)),
     TextFile(JObject(<<>>, <<JArr(<<>>)>>, <<>>, <<>>, <<>>)),
     TextFile(JObject(<<JString>>, <<>>, <<>>, <<>>, <<>>)),
     CardsFile(<<BareCard, NullRecord>>)}
GoodCardFiles ==
    {CardsFile(<<FutureCard>>), CardsFile(<<BareCard, OldCard>>), CardsFile(<<>>),
     CardsFile(<<FutureCard, <<[FutureCard[1] EXCEPT !.id = <<Id("x", <<3>>)>>]>>>>)}
CardFiles == BadCardFiles \cup GoodCardFiles

\* Records of layout library files
LayoutRec(t, cs) == <<[title |-> t, savedAt |-> JAbsent, cards |-> cs]>>
LayoutsFile(recs) == TextFile(JObject(<<>>, <<JArr(recs)>>, <<>>, <<>>, <<>>))

BadLibraryFiles ==
    {Unreadable, NotJSON, TextFile(JNull), TextFile(JString),
     TextFile(JObject(<<JArr(<<>>)>>, <<>>, <<>>, <<>>, <<>>)),
     TextFile(JObject(<<>>, <<JString>>, <<>>, <<>>, <<>>))}
GoodLibraryFiles ==
    {LayoutsFile(<<>>),
     LayoutsFile(<<LayoutRec(<<<<"a">>>>, <<>>), LayoutRec(<<<<"a", Sp>>>>, <<JString>>)>>),
     TextFile(JArr(<<NullRecord>>)),
     LayoutsFile(<<LayoutRec(<<>>, <<JArr(<<NullRecord, OldCard>>)>>)>>)}
LibraryFiles == BadLibraryFiles \cup GoodLibraryFiles

IncomingCount(file) ==
    IF file.k = "text" /\ file.json # <<>> /\ IncomingLayouts(file.json[1]) # <<>>
    THEN Len(IncomingLayouts(file.json[1])[1]) ELSE 0

\* Cards in the foreground: every card operation, few layouts
Next ==
    \/ Mount
    \/ Tick
    \/ \E key \in {"cards", "layouts", "doclib"} : PersistEffect(key, FALSE)
    \/ \E f \in FormInputs : TypeForm(f[1], f[2])
    \/ Len(Cards) < MaxCards /\ addCard
    \/ \E id \in CardIds \ {editingId[i] : i \in 1..Len(editingId)} : startEdit(id)
    \/ \E e \in EditInputs : TypeEdit(e[1], e[2])
    \/ saveEdit
    \/ cancelEdit
    \* Edit and Delete are rendered on the cards that are not being edited
    \/ \E id \in CardIds \ {editingId[i] : i \in 1..Len(editingId)}, c \in BOOLEAN :
           removeCard(id, c)
    \/ Len(layouts) < MaxSaved /\ saveLayout(<<>>)
    \/ \E id \in LayoutIds \cup {Id("L", <<0>>)} : openLayout(id)
    \/ exportJSON
    \/ \E f \in GoodCardFiles \cup {exportJSONFile(Cards)} : importJSON(f)

Spec == Init /\ [][Next]_vars

\* Layouts in the foreground: every layout operation, one card
NextLib ==
    \/ Mount
    \/ Tick
    \/ \E key \in {"cards", "layouts", "doclib"} : PersistEffect(key, FALSE)
    \/ TypeForm(<<"a">>, <<>>)
    \/ Len(Cards) < MaxEach /\ addCard
    \/ \E b \in BOOLEAN : setShowLibrary(b)
    \/ Len(layouts) < MaxLayouts /\ \E a \in PromptAnswers : saveLayout(a)
    \/ \E id \in CardIds : toggleExpanded(id)
    \/ \E id \in CardIds : removeCard(id, TRUE)
    \/ \E id \in LayoutIds \cup {Id("L", <<0>>)} : openLayout(id)
    \/ \E id \in LayoutIds \cup {Id("L", <<0>>)}, c \in BOOLEAN : deleteLayout(id, c)
    \/ \E f \in GoodLibraryFiles \cup {NotJSON} :
           Len(layouts) + IncomingCount(f) <= MaxLayouts /\ importLibraryLayouts(f)

SpecLib == Init /\ [][NextLib]_vars

----------------------------------------------------------------------------
(* The document library *)

ATxt == <<"a">> \o DotTxt

Picked(n, ok) == [name |-> n, content |-> <<"x">>, readable |-> ok]

\* The batches the user picks in the file dialog
Batches ==
    {<<Picked(ATxt, TRUE)>>,
     <<Picked(<<"a", Sp>> \o DotTxt, TRUE), Picked(<<"a", Sp, Sp>> \o DotTxt, TRUE)>>,
     <<Picked(<<"n", ".", "m", "d">>, TRUE), Picked(<<"b", ".", "T", "X", "T">>, TRUE)>>,
     <<Picked(<<"n", ".", "m", "d">>, TRUE)>>,
     <<Picked(ATxt, TRUE), Picked(<<"b", ".", "T", "X", "T">>, FALSE)>>}

FolderAnswers == {<<>>, <<<<"f">>>>, <<<<Sp, "f">>>>}
RenameFolderAnswers == {<<>>, <<<<"f">>>>, <<<<"g">>>>}
RenameFileAnswers == {<<>>, <<ATxt>>, <<<<"a">> \o Suffix2 \o DotTxt>>}

FileIds == {docLib.files[i].id : i \in 1..Len(docLib.files)}
FolderTargets == {Unfiled} \cup {InFolder(id) : id \in FolderIds(docLib.folders)}

\* Records of document library files
FolderRec(id, name) == <<[id |-> id, name |-> name, createdAt |-> JAbsent]>>
FileRec(name, fo) ==
    <<[id |-> <<>>, name |-> name, content |-> <<<<"x">>>>, createdAt |-> JAbsent,
       updatedAt |-> JNum(0), folderId |-> fo]>>

DocObject(folders, files) == JObject(<<>>, <<>>, <<>>, folders, files)
WrappedDocFile(folders, files) ==
    TextFile(JObject(<<>>, <<>>, <<DocObject(folders, files)>>, <<>>, <<>>))
PlainDocFile(folders, files) == TextFile(DocObject(folders, files))


GoodDocFiles ==
    LET g1 == Id("G", <<1>>)
        g2 == Id("G", <<2>>)
    IN {WrappedDocFile(
            <<JArr(<<FolderRec(<<g1>>, <<<<"f">>>>), FolderRec(<<g2>>, <<<<"f", Sp>>>>)>>)>>,
            <<JArr(<<FileRec(<<ATxt>>, <<g1>>), FileRec(<<ATxt>>, <<g2>>)>>)>>),
        PlainDocFile(<<JArr(<<>>)>>,
                     <<JArr(<<FileRec(<<ATxt>>, <<>>), FileRec(<<ATxt>>, <<g1>>)>>)>>),
        PlainDocFile(<<JArr(<<NullRecord>>)>>, <<JArr(<<NullRecord>>)>>),
        PlainDocFile(<<JArr(<<NullRecord>>)>>,
                     <<JArr(<<FileRec(<<ATxt>>, <<Id("F", <<1>>)>>),
                              FileRec(<<ATxt>>, <<Id("F_in", <<0>>)>>)>>)>>)}

BadDocFiles ==
    {Unreadable, NotJSON, TextFile(JNull), TextFile(JArr(<<>>)),
     PlainDocFile(<<JArr(<<>>)>>, <<>>),
     PlainDocFile(<<JString>>, <<JArr(<<>>)>>),
     WrappedDocFile(<<JArr(<<>>)>>, <<JString>>)}

IncomingFolders(file) ==
    IF /\ file.k = "text" /\ file.json # <<>> /\ DocPayload(file.json[1]) # <<>>
       /\ IsArrayField(DocPayload(file.json[1])[1].folders)
    THEN Len(DocPayload(file.json[1])[1].folders[1].items) ELSE 0
IncomingFiles(file) ==
    IF /\ file.k = "text" /\ file.json # <<>> /\ DocPayload(file.json[1]) # <<>>
       /\ IsArrayField(DocPayload(file.json[1])[1].files)
    THEN Len(DocPayload(file.json[1])[1].files[1].items) ELSE 0

NextDoc ==
    \/ Mount
    \/ Tick
    \/ \E key \in {"cards", "layouts", "doclib"} : PersistEffect(key, FALSE)
    \/ Len(docLib.folders) < MaxFolders /\ \E a \in FolderAnswers : createFolder(a)
    \/ \E id \in FolderIds(docLib.folders), a \in RenameFolderAnswers : renameFolder(id, a)
    \/ \E id \in FolderIds(docLib.folders) \cup {Id("F", <<0>>)}, c \in BOOLEAN :
           deleteFolder(id, c)
    \/ \E t \in {All} \cup FolderTargets : setActiveFolder(t)
    \/ \E b \in Batches :
           Len(docLib.files) + Len(b) <= MaxFiles /\ uploadTxtFiles(b, activeFolder)
    \/ \E id \in FileIds, a \in RenameFileAnswers : renameFile(id, a)
    \/ \E id \in FileIds \cup {Id("D", <<0, 0>>)}, c \in BOOLEAN : deleteFile(id, c)
    \/ \E id \in FileIds, t \in FolderTargets : moveFile(id, t)
    \/ \E v \in {<<>>} \cup {<<id>> : id \in FileIds} : setPreviewDocId(v)
    \/ \E f \in GoodDocFiles \cup {NotJSON} :
           /\ Len(docLib.folders) + IncomingFolders(f) <= MaxFolders
           /\ Len(docLib.files) + IncomingFiles(f) <= MaxFiles
           /\ importDocLibrary(f)

SpecDoc == Init /\ [][NextDoc]_vars

----------------------------------------------------------------------------
(* The three importers, with files of every kind *)

DocFiles == BadDocFiles \cup GoodDocFiles

NextImport ==
    \/ Mount
    \/ Tick
    \/ \E key \in {"cards", "layouts", "doclib"} : PersistEffect(key, FALSE)
    \/ TypeForm(<<"a">>, <<>>)
    \/ Len(Cards) < MaxEach /\ addCard
    \/ Len(layouts) < MaxEach /\ saveLayout(<<>>)
    \/ Len(docLib.folders) < MaxEach /\ createFolder(<<<<"f">>>>)
    \/ \E f \in CardFiles : importJSON(f)
    \/ \E id \in CardIds : toggleExpanded(id)
    \/ \E f \in LibraryFiles
                \cup {LayoutsFile(<<LayoutRec(<<<<"b">>>>, <<>>), LayoutRec(<<<<"a">>>>, <<>>)>>)} :
           Len(layouts) + IncomingCount(f) <= MaxLayouts /\ importLibraryLayouts(f)
    \/ \E f \in DocFiles :
           /\ Len(docLib.folders) + IncomingFolders(f) <= MaxFolders
           /\ Len(docLib.files) + IncomingFiles(f) <= MaxFiles
           /\ importDocLibrary(f)

SpecImport == Init /\ [][NextImport]_vars

----------------------------------------------------------------------------
(* The page over a storage medium that may hold anything and may fail *)

\* What an earlier run of the page left in storage
EarlierCard == [id |-> Id("c", <<-1>>), title |-> <<"a">>, text |-> <<"x">>, createdAt |-> -1]
EarlierStorage ==
    [key \in {"cards", "layouts", "doclib"} |->
        IF key = "cards" THEN Stored(CardsToJSON(<<EarlierCard>>))
        ELSE IF key = "layouts"
        THEN Stored(LayoutsToJSON(<<[id |-> Id("L", <<-1>>), title |-> Untitled,
                                     savedAt |-> -1, cards |-> 1]>>,
                                  <<<<EarlierCard>>>>))
        ELSE Stored(DocLibToJSON(
                 [folders |-> <<[id |-> Id("F", <<-1>>), name |-> <<"f">>, createdAt |-> -1]>>,
                  files |-> <<[id |-> Id("D", <<-1, 0>>), name |-> ATxt, content |-> <<"x">>,
                               createdAt |-> -1, updatedAt |-> -1,
                               folderId |-> <<Id("F", <<-1>>)>>]>>]))]

InitialStorages ==
    {EarlierStorage,
     [key \in {"cards", "layouts", "doclib"} |->
         IF key = "cards" THEN EmptyEntry ELSE IF key = "layouts" THEN Garbage ELSE Absent]}

\* ok: every access succeeds; flaky: a write may throw (quota); denied: every
\* access throws

InitStore == \E st \in InitialStorages, md \in {"ok", "flaky", "denied"} : InitWith(st, md)

NextStore ==
    \/ Mount
    \/ Reload
    \/ \E key \in {"cards", "layouts", "doclib"}, throws \in BOOLEAN :
           PersistEffect(key, throws)
    \/ TypeForm(<<"a">>, <<>>)
    \/ Len(Cards) < MaxEach /\ addCard
    \/ \E id \in CardIds : removeCard(id, TRUE)
    \/ Len(layouts) < MaxEach /\ saveLayout(<<>>)
    \/ \E id \in LayoutIds : openLayout(id)
    \/ \E id \in LayoutIds : deleteLayout(id, TRUE)
    \/ Len(docLib.folders) < MaxEach /\ createFolder(<<<<"f">>>>)
    \/ \E id \in FolderIds(docLib.folders) : deleteFolder(id, TRUE)

SpecStore == InitStore /\ [][NextStore]_vars

----------------------------------------------------------------------------
(* Copying to the clipboard, from the card page and from the box page *)

NextCopy ==
    \/ Mount
    \/ \E key \in {"cards", "layouts", "doclib"} : PersistEffect(key, FALSE)
    \/ \E f \in FormInputs : TypeForm(f[1], f[2])
    \/ Len(Cards) < MaxEach /\ addCard
    \/ \E id \in CardIds \ {editingId[i] : i \in 1..Len(editingId)} : startEdit(id)
    \/ cancelEdit
    \/ Len(docLib.files) < MaxEach /\ uploadTxtFiles(<<Picked(ATxt, TRUE)>>, activeFolder)
    \/ \E v \in {<<>>} \cup {<<id>> : id \in FileIds} : setPreviewDocId(v)
    \/ \E id \in CardIds \ {editingId[i] : i \in 1..Len(editingId)} : toggleExpanded(id)
    \/ \E id \in CardIds \ {editingId[i] : i \in 1..Len(editingId)} :
           toggleExpandedUndefined(id)
    \/ \E value \in Copyable : copyNow(value)
    \/ \E i \in 1..Len(boxes) : copyText(boxes[i].text)
    \/ \E ok \in BOOLEAN : settleWrite(ok)

SpecCopy == Init /\ [][NextCopy]_vars

----------------------------------------------------------------------------
(* The add form and the inline editor, with more of what can be typed *)

NextEdit ==
    \/ Mount
    \/ \E key \in {"cards", "layouts", "doclib"} : PersistEffect(key, FALSE)
    \/ \E f \in FormInputs \cup {<<<<Sp>>, <<"x", Sp>>>>, <<<<"a", Sp>>, <<>>>>} :
           TypeForm(f[1], f[2])
    \/ Len(Cards) < MaxCards /\ addCard
    \/ \E id \in CardIds \ {editingId[i] : i \in 1..Len(editingId)} : startEdit(id)
    \/ \E e \in EditInputs \cup {<<<<Sp, "b">>, <<"y", Sp>>>>} : TypeEdit(e[1], e[2])
    \/ saveEdit
    \/ cancelEdit
    \/ \E id \in CardIds \ {editingId[i] : i \in 1..Len(editingId)} : removeCard(id, TRUE)
    \/ Len(layouts) < MaxEach /\ saveLayout(<<>>)

SpecEdit == Init /\ [][NextEdit]_vars

----------------------------------------------------------------------------
(* Deletions and uploads, over what an earlier run left in storage *)

NextEarlier ==
    \/ Mount
    \/ \E key \in {"cards", "layouts", "doclib"} : PersistEffect(key, FALSE)
    \/ \E t \in {All} \cup FolderTargets : setActiveFolder(t)
    \/ \E v \in {<<>>} \cup {<<id>> : id \in FileIds} : setPreviewDocId(v)
    \/ \E id \in CardIds, c \in BOOLEAN : removeCard(id, c)
    \/ \E id \in LayoutIds \cup {Id("L", <<0>>)}, c \in BOOLEAN : deleteLayout(id, c)
    \/ \E id \in FolderIds(docLib.folders) \cup {Id("F", <<0>>)}, c \in BOOLEAN :
           deleteFolder(id, c)
    \/ \E id \in FileIds \cup {Id("D", <<0, 0>>)}, c \in BOOLEAN : deleteFile(id, c)
    \/ \E b \in Batches : Len(docLib.files) <= MaxFiles /\ uploadTxtFiles(b, activeFolder)

SpecEarlier == InitWith(EarlierStorage, "ok") /\ [][NextEarlier]_vars

----------------------------------------------------------------------------
(* Handlers running while file reads are pending *)

\* The layouts and the files the pending reads will add
PendingAdds ==
    LET F[n \in 0..Len(reads)] ==
            IF n = 0 THEN [layouts |-> 0, files |-> 0]
            ELSE [layouts |-> F[n - 1].layouts +
                                 IF reads[n].kind = "library"
                                 THEN IncomingCount(reads[n].file) ELSE 0,
                  files |-> F[n - 1].files + Len(reads[n].batch)]
    IN F[Len(reads)]

NextAsync ==
    \/ Mount
    \/ \E key \in {"cards", "layouts", "doclib"} : PersistEffect(key, FALSE)
    \/ TypeForm(<<"a">>, <<>>)
    \/ Len(Cards) < MaxEach /\ addCard
    \/ Len(layouts) + PendingAdds.layouts < MaxLayouts /\ \E a \in {<<>>, <<<<"a">>>>} : saveLayout(a)
    \/ \E f \in GoodLibraryFiles \cup {NotJSON} :
           /\ Len(layouts) + PendingAdds.layouts + IncomingCount(f) <= MaxLayouts
           /\ startImportLibrary(f)
    \/ \E i \in 1..Len(reads) : settleImportLibrary(i)
    \/ \E id \in FolderIds(docLib.folders) : deleteFolder(id, TRUE)
    \/ \E t \in {All} \cup FolderTargets : setActiveFolder(t)
    \/ \E b \in Batches :
           /\ Len(docLib.files) + PendingAdds.files + Len(b) <= MaxFiles
           /\ startUpload(b, activeFolder)
    \/ \E i \in 1..Len(reads) : settleUpload(i)
    \/ \E id \in FileIds, t \in FolderTargets : moveFile(id, t)

SpecAsync ==
    /\ \E st \in {EmptyStorage, EarlierStorage} : InitWith(st, "ok")
    /\ [][NextAsync]_vars

----------------------------------------------------------------------------
(* Claims *)

Distinct(seq) == \A i, j \in 1..Len(seq) : i # j => seq[i] # seq[j]

\* C1: starting from no layouts, after any sequence of saveLayout, deleteLayout,
\* openLayout and importLibraryLayouts (each import completing before the next
\* operation), no two layouts have the same title
C1_LayoutTitlesDistinct ==
    Distinct([i \in 1..Len(layouts) |-> layouts[i].title])

\* An import of repeated titles next to a saved layout: three layouts, one of
\* which needed the suffix twice
C1_Witness ==
    /\ Len(layouts) = 3
    /\ \E i \in 1..3 : layouts[i].title = <<"a">> \o Suffix2 \o Suffix2
    /\ \E i \in 1..3 : layouts[i].id.p = "L" /\ Len(layouts[i].id.n) = 2
    /\ \E i \in 1..3 : layouts[i].id.p = "L" /\ Len(layouts[i].id.n) = 1

\* C5: a saved layout is a snapshot: no later step (addCard, saveEdit,
\* removeCard, importJSON, openLayout) changes the card list stored in an entry
C5_SavedLayoutIsSnapshot ==
    [][\A i \in 1..Len(layouts) :
          (i <= Len(layouts') /\ layouts'[i].id = layouts[i].id)
              => heap'[layouts'[i].cards] = heap[layouts[i].cards]]_vars

\* A card was added after a layout had been saved from the very array the page
\* held: the layout still holds the shorter list
C5_Witness ==
    /\ notice = Toast("added")
    /\ \E i \in 1..Len(layouts) :
          /\ Len(layouts[i].id.n) = 1
          /\ Len(heap[layouts[i].cards]) = 1
          /\ Len(Cards) = 2
          /\ Cards[1] = heap[layouts[i].cards][1]

IsSubsequence(small, big) ==
    \E I \in SUBSET (1..Len(big)) : small = KeepIdx(big, I)

\* C6: the card list is in insertion order: addCard places the new card after
\* every existing card; addCard, saveEdit and removeCard keep the relative
\* order of the cards that remain
C6_InsertionOrder ==
    [][/\ addCard =>
            \/ Cards' = Cards
            \/ Len(Cards') = Len(Cards) + 1 /\ SubSeq(Cards', 1, Len(Cards)) = Cards
       /\ saveEdit =>
            /\ Len(Cards') = Len(Cards)
            /\ \A i \in 1..Len(Cards) :
                  Cards'[i].id = Cards[i].id /\ Cards'[i].createdAt = Cards[i].createdAt
       /\ (\E id \in CardIds, c \in BOOLEAN : removeCard(id, c)) =>
            IsSubsequence(Cards', Cards)]_vars

\* The first of two cards was removed and the second is now the only one
C6_Witness ==
    /\ notice = Toast("deleted")
    /\ Len(Cards) = 1
    /\ Cards[1].id = Id("c", <<1>>)
    /\ \E i \in 1..Len(layouts) :
          Len(heap[layouts[i].cards]) = 2 /\ heap[layouts[i].cards][2] = Cards[1]

\* C7 as claimed: importJSON of the file exportJSON produces yields the same
\* sequence of cards
C7_ExportImportSameSequence ==
    [][importJSON(exportJSONFile(Cards)) => Cards' = Cards]_vars

\* C2: within one folder (the unfiled group included) the names of the files
\* are pairwise distinct, after every operation on the document library
C2_FileNamesDistinctInFolder ==
    \A i, j \in 1..Len(docLib.files) :
        (i # j /\ docLib.files[i].folderId = docLib.files[j].folderId)
            => docLib.files[i].name # docLib.files[j].name

\* C3: the names of the folders are pairwise distinct, after every operation
\* on the document library
C3_FolderNamesDistinct ==
    Distinct([i \in 1..Len(docLib.folders) |-> docLib.folders[i].name])

\* An import has just added two folders whose incoming names were equal after
\* trimming, and the second one got the suffix
C3_Witness ==
    /\ notice = Toast("imported files and folders")
    /\ Len(docLib.folders) = 2
    /\ docLib.folders[1].name = <<"f">>
    /\ docLib.folders[2].name = <<"f">> \o Suffix2

\* C4: a confirmed deleteFolder(f) removes the folder f and no other folder,
\* keeps every file with its id, name and content, and sets folderId to null
\* on exactly the files that were in f
C4_DeleteFolderFrame ==
    [][\A fid \in FolderIds(docLib.folders) :
          deleteFolder(fid, TRUE) =>
              /\ FolderIds(docLib'.folders) = FolderIds(docLib.folders) \ {fid}
              /\ Len(docLib'.folders) = Len(docLib.folders) - 1
              /\ \A i \in 1..Len(docLib.folders) :
                     docLib.folders[i].id # fid =>
                         \E j \in 1..Len(docLib'.folders) :
                             docLib'.folders[j] = docLib.folders[i]
              /\ Len(docLib'.files) = Len(docLib.files)
              /\ \A i \in 1..Len(docLib.files) :
                     /\ docLib'.files[i].id = docLib.files[i].id
                     /\ docLib'.files[i].name = docLib.files[i].name
                     /\ docLib'.files[i].content = docLib.files[i].content
                     /\ docLib'.files[i].folderId =
                            IF docLib.files[i].folderId = <<fid>> THEN <<>>
                            ELSE docLib.files[i].folderId]_vars

\* A folder holding a file has just been deleted: the file is now unfiled, and
\* the other folder still holds its own file
C4_Witness ==
    /\ notice = Toast("folder deleted")
    /\ Len(docLib.folders) = 1
    /\ \E i, j \in 1..Len(docLib.files) :
           /\ docLib.files[i].folderId = <<>>
           /\ docLib.files[i].updatedAt = now
           /\ docLib.files[i].createdAt < now
           /\ docLib.files[j].folderId = <<docLib.folders[1].id>>

\* The three ways an import fails: the file cannot be read, its text is not
\* JSON, or the JSON has the wrong shape for the importer
CannotBeRead(file) == file.k = "unreadable"
NotValidJSON(file) == file.k = "text" /\ file.json = <<>>
CardsWrongShape(file) ==
    /\ file.k = "text" /\ file.json # <<>>
    /\ \/ file.json[1].t # "object"
       \/ ~IsArrayField(file.json[1].cards)
       \/ \E i \in 1..Len(file.json[1].cards[1].items) :
              file.json[1].cards[1].items[i] = NullRecord
LayoutsWrongShape(file) ==
    /\ file.k = "text" /\ file.json # <<>>
    /\ file.json[1].t # "array"
    /\ file.json[1].t # "object" \/ ~IsArrayField(file.json[1].layouts)
DocLibWrongShape(file) ==
    /\ file.k = "text" /\ file.json # <<>>
    /\ \/ DocPayload(file.json[1]) = <<>>
       \/ ~IsArrayField(DocPayload(file.json[1])[1].folders)
       \/ ~IsArrayField(DocPayload(file.json[1])[1].files)

\* The step changes no card, no layout and nothing of the document library,
\* and shows a dialog or a notice
NoOpAfterNotification ==
    /\ Cards' = Cards
    /\ Len(layouts') = Len(layouts)
    /\ \A i \in 1..Len(layouts) :
           /\ [layouts'[i] EXCEPT !.cards = 0] = [layouts[i] EXCEPT !.cards = 0]
           /\ heap'[layouts'[i].cards] = heap[layouts[i].cards]
    /\ docLib' = docLib
    /\ notice'.kind \in {"alert", "toast"}

\* C9: an import that fails (importJSON, importLibraryLayouts or
\* importDocLibrary given a file that cannot be read, is not JSON, or has the
\* wrong shape for that importer) changes none of cards, layouts and docLib,
\* and the user gets a dialog or a notice.  A null record is a wrong shape
\* for importJSON, which reads c.id; the other two importers read l?.title
\* and f?.name, so a null record is imported with the defaults
C9_FailedImportIsNoOp ==
    [][/\ \A f \in CardFiles :
              (importJSON(f) /\ (CannotBeRead(f) \/ NotValidJSON(f) \/ CardsWrongShape(f)))
                  => NoOpAfterNotification
       /\ \A f \in LibraryFiles :
              (importLibraryLayouts(f)
                  /\ (CannotBeRead(f) \/ NotValidJSON(f) \/ LayoutsWrongShape(f)))
                  => NoOpAfterNotification
       /\ \A f \in DocFiles :
              (importDocLibrary(f)
                  /\ (CannotBeRead(f) \/ NotValidJSON(f) \/ DocLibWrongShape(f)))
                  => NoOpAfterNotification]_vars

\* With a card, a saved layout and a folder in place, an import has just been
\* refused with the dialog only importJSON shows for a wrong shape
C9_Witness ==
    /\ notice = Alert("invalid file")
    /\ Len(Cards) = 1
    /\ Len(layouts) = 1
    /\ now = MaxClock

\* The layouts by value: every entry with the cards it holds
LayoutValues(ls, h) ==
    [i \in 1..Len(ls) |-> [ls[i] EXCEPT !.cards = h[ls[i].cards]]]

\* C8: whenever no persist effect is pending and the last write of every key
\* succeeded, the three entries hold the serialization of the current cards,
\* layouts and docLib, and the state initializers would read the same three
\* values back
C8_StorageHoldsState ==
    (Idle /\ \A key \in {"cards", "layouts", "doclib"} : lastWrite[key] = "ok") =>
        /\ \A key \in {"cards", "layouts", "doclib"} : storage[key] = Stored(Serialized(key))
        /\ InitialCards = Cards
        /\ LayoutValues(InitialLayouts, InitialHeap) = LayoutValues(layouts, heap)
        /\ InitialDocLib = docLib

\* Over a medium whose writes may throw, a card, a saved layout and a
\* folder have been written; the entries no longer hold what they held at
\* first
C8_Witness ==
    /\ Idle
    /\ \A key \in {"cards", "layouts", "doclib"} : lastWrite[key] = "ok"
    /\ medium = "flaky"
    /\ Len(Cards) = 1
    /\ Len(layouts) >= 1
    /\ Len(docLib.folders) >= 1
    /\ currentLayoutTitle # <<>>

\* A read of the initializer of a key fails: getItem throws, or the entry is
\* not JSON
ReadFails(key) == medium = "denied" \/ storage[key] = Garbage

\* C10 as claimed: a failure of the storage medium, at initialization or in a
\* persist effect, is shown to the user as a dialog or a notice
C10_StorageFailureSurfaced ==
    [][/\ (\E key \in {"cards", "layouts", "doclib"} : PersistEffect(key, TRUE))
              => notice'.kind \in {"alert", "toast"}
       /\ (Mount /\ \E key \in {"cards", "layouts", "doclib"} : ReadFails(key))
              => notice'.kind \in {"alert", "toast"}]_vars

\* C10: a failure of the storage medium is caught and ignored without a word:
\* a write that throws leaves the entries and the state as they were, shows
\* nothing and is not tried again; a read that fails makes the initializer
\* start from the empty default and shows nothing; the component keeps running
C10_StorageFailureSilent ==
    [][/\ \A key \in {"cards", "layouts", "doclib"} :
              PersistEffect(key, TRUE) =>
                  /\ notice' = NoNotice
                  /\ phase' = "ready"
                  /\ storage' = storage
                  /\ key \notin pendingEffects'
                  /\ UNCHANGED <<cardVars, docVars>>
       /\ Mount =>
              /\ notice' = NoNotice
              /\ phase' = "ready"
              /\ storage' = storage
              /\ ReadFails("cards") => Cards' = <<>>
              /\ ReadFails("layouts") => layouts' = <<>>
              /\ ReadFails("doclib") => docLib' = [folders |-> <<>>, files |-> <<>>]]_vars

\* A write of the cards has failed and nothing was shown: the entry is not
\* the serialization of the cards on the page
C10_Witness ==
    /\ Idle
    /\ lastWrite["cards"] = "failed"
    /\ notice = NoNotice
    /\ Len(Cards) >= 1
    /\ storage["cards"] # Stored(Serialized("cards"))

\* C11: a clipboard copy (starting a write, or a write settling) changes none
\* of cards, layouts, boxes and docLib; a rejected write shows a failure
\* dialog; nothing tells the user the text was copied before the write has
\* been fulfilled; a rejected write is not started again
C11_ClipboardCopy ==
    [][/\ ((\E value \in Copyable : copyNow(value))
              \/ (\E i \in 1..Len(boxes) : copyText(boxes[i].text))
              \/ (\E ok \in BOOLEAN : settleWrite(ok)))
          => /\ Cards' = Cards
             /\ layouts' = layouts
             /\ boxes' = boxes
             /\ docLib' = docLib
       /\ settleWrite(FALSE) =>
              /\ notice'.kind = "alert"
              /\ clip'.pending = Tail(clip.pending)
       /\ (notice' = Toast("copied") \/ notice' = Alert("copied!")) => settleWrite(TRUE)]_vars

\* C12: whenever no file read is pending, the titles of the layouts are
\* pairwise distinct, whatever saveLayout or other import ran while a read of
\* importLibraryLayouts was pending
C12_TitlesDistinctAfterReads ==
    reads = <<>> => Distinct([i \in 1..Len(layouts) |-> layouts[i].title])

\* C18: in every state the folderId of every file is null or the id of a
\* folder of docLib.folders, also when the reads of an upload into a folder
\* settle after the folder was deleted
C18_FolderIdResolves ==
    \A i \in 1..Len(docLib.files) :
        \/ docLib.files[i].folderId = <<>>
        \/ docLib.files[i].folderId[1] \in FolderIds(docLib.folders)

\* C13: importJSON of a valid file replaces cards by one card per record of
\* the file: the record's id, else a generated one; the record's title, else
\* 'Untitled'; the record's text, else ''; the record's createdAt when unary
\* plus reads a finite number from it (a number as it stands, null as 0), else
\* a timestamp at most the time of the import.  The cards are in
\* non-decreasing createdAt order, and records of equal createdAt keep the
\* order of the file
C13_ImportNormalizes ==
    [][\A f \in CardFiles :
           (importJSON(f) /\ notice' = Toast("imported")) =>
               LET recs == f.json[1].cards[1].items
                   n == Len(recs)
                   FromRecord(c, rec) ==
                       /\ c.id = IF rec[1].id = <<>> THEN [p |-> "c", n |-> c.id.n]
                                 ELSE rec[1].id[1]
                       /\ c.title = IF rec[1].title = <<>> THEN Untitled
                                    ELSE rec[1].title[1]
                       /\ c.text = IF rec[1].text = <<>> THEN <<>> ELSE rec[1].text[1]
                       /\ c.createdAt \in Int
                       /\ rec[1].createdAt.k = "num" => c.createdAt = rec[1].createdAt.v
                       /\ rec[1].createdAt.k = "null" => c.createdAt = 0
                       /\ rec[1].createdAt.k = "absent" => c.createdAt \in (now' - n)..now'
               IN /\ Len(Cards') = n
                  /\ \E p \in [1..n -> 1..n] :
                         /\ \A a, b \in 1..n : a # b => p[a] # p[b]
                         /\ \A k \in 1..n : FromRecord(Cards'[k], recs[p[k]])
                         /\ \A k, l \in 1..n :
                                k < l => \/ Cards'[k].createdAt < Cards'[l].createdAt
                                         \/ /\ Cards'[k].createdAt = Cards'[l].createdAt
                                            /\ p[k] < p[l]]_vars

\* An import has just replaced the cards by two cards of equal createdAt, in
\* the order of the file
C13_Witness ==
    /\ notice = Toast("imported")
    /\ Len(Cards) = 2
    /\ Cards[1].createdAt = Cards[2].createdAt
    /\ Cards[1].id = Id("x", <<1>>)
    /\ Cards[2].id = Id("x", <<3>>)

\* C14: importDocLibrary of a valid file keeps the folders and files there are,
\* unchanged and in place, and appends one folder per incoming folder, each
\* under an id no other folder has, and one file per incoming file.  An
\* incoming file whose folderId is the id of an incoming folder (for a folder
\* without id, the key 'F_in_' + index under which the importer registers it)
\* is in a folder created for that id; any other incoming file, one whose
\* folderId is the id of a folder that was already there included, is unfiled
C14_ImportMergesAndRemaps ==
    [][\A f \in DocFiles :
           (importDocLibrary(f) /\ notice' = Toast("imported files and folders")) =>
               LET payload == DocPayload(f.json[1])[1]
                   fos == payload.folders[1].items
                   fis == payload.files[1].items
                   nF == Len(docLib.folders)
                   nD == Len(docLib.files)
                   IncomingId(i) ==
                       IF FieldOf(fos[i], "id") = <<>> THEN [p |-> "F_in", n |-> <<i - 1>>]
                       ELSE FieldOf(fos[i], "id")[1]
                   fresh(i) == docLib'.folders[nF + i].id
               IN /\ Len(docLib'.folders) = nF + Len(fos)
                  /\ Len(docLib'.files) = nD + Len(fis)
                  /\ SubSeq(docLib'.folders, 1, nF) = docLib.folders
                  /\ SubSeq(docLib'.files, 1, nD) = docLib.files
                  /\ \A i \in 1..Len(fos) :
                         \A k \in 1..(nF + Len(fos)) :
                             k # nF + i => docLib'.folders[k].id # fresh(i)
                  /\ \A j \in 1..Len(fis) :
                         LET inFolder == FieldOf(fis[j], "folderId")
                             hits == IF inFolder = <<>> THEN {}
                                     ELSE {i \in 1..Len(fos) : IncomingId(i) = inFolder[1]}
                             got == docLib'.files[nD + j].folderId
                         IN IF hits = {} THEN got = <<>>
                            ELSE got # <<>> /\ got[1] \in {fresh(i) : i \in hits}]_vars

\* An import into a library with one folder has just left unfiled a file whose
\* folderId named that folder, and filed another under the folder it brought
C14_Witness ==
    /\ notice = Toast("imported files and folders")
    /\ Len(docLib.folders) = 2
    /\ docLib.folders[1].id = Id("F", <<1>>)
    /\ Len(docLib.files) = 2
    /\ docLib.files[1].folderId = <<>>
    /\ docLib.files[2].folderId = <<docLib.folders[2].id>>

\* C16: for the files of every reachable library, every target folder and
\* every base name, uniqueFileName and uniqueNameForImport end their loop
\* (the model writes a loop that never ends as the empty sequence) and return
\* a name that no file of the target folder has
C16_UniqueNameTerminates ==
    \A base \in {ATxt, <<"a", "-", "2">> \o DotTxt}, fo \in FolderTargets :
        LET names == NamesIn(docLib.files, TargetFolderId(fo))
            u == uniqueFileName(base, TargetFolderId(fo), docLib.files)
            v == uniqueNameForImport(base, TargetFolderId(fo), docLib.files)
        IN /\ u # <<>> /\ u[1] \notin names
           /\ v # <<>> /\ v[1] \notin names

\* C17: the title saveLayout gets from nextUniqueTitle for the answer to its
\* prompt is the trimmed answer ('Untitled' when that is empty) followed by k
\* suffixes '-2', where k >= 0 is the smallest number for which no layout has
\* that title; so an answer that is not taken comes back as trimmed
C17_NextUniqueTitleSmallest ==
    [][\A a \in PromptAnswers :
           (saveLayout(a) /\ Len(Cards) > 0) =>
               LET typed == IF a = <<>> THEN <<>> ELSE a[1]
                   trimmed == TrimEnd(TrimStart(typed))
                   start == IF trimmed = <<>> THEN Untitled ELSE trimmed
                   taken == {layouts[i].title : i \in 1..Len(layouts)}
                   WithSuffixes[k \in 0..(Len(layouts) + 1)] ==
                       IF k = 0 THEN start ELSE WithSuffixes[k - 1] \o <<"-", "2">>
               IN \E k \in 0..Len(layouts) :
                      /\ currentLayoutTitle' = WithSuffixes[k]
                      /\ layouts'[Len(layouts')].title = WithSuffixes[k]
                      /\ WithSuffixes[k] \notin taken
                      /\ \A j \in 0..(k - 1) : WithSuffixes[j] \in taken]_vars

\* A layout has just been saved under a title that needed two suffixes
C17_Witness ==
    /\ notice = Toast("saved layout")
    /\ Len(layouts) = 3
    /\ currentLayoutTitle = <<"a">> \o Suffix2 \o Suffix2
    /\ layouts[3].title = currentLayoutTitle
    /\ layouts[3].id.n = <<now>>

\* C19: in every state editingId is null or the id of a card of cards (so
\* that a saveEdit, which maps over the cards with that id and shows 'Saved',
\* always finds its card)
C19_EditingIdResolves ==
    editingId = <<>> \/ \E i \in 1..Len(Cards) : Cards[i].id = editingId[1]

\* C20: a confirmed removeCard of a card on the page takes exactly that card
\* out of the list, and a saveEdit that shows 'Saved' while the card being
\* edited is on the page changes the title and the text of exactly that
\* card: every other card stays as it was, in place
C20_ExactlyOneCard ==
    [][/\ \A id \in CardIds :
              removeCard(id, TRUE) =>
                  \E i \in 1..Len(Cards) :
                      /\ Cards[i].id = id
                      /\ Cards' = SubSeq(Cards, 1, i - 1) \o SubSeq(Cards, i + 1, Len(Cards))
       /\ (saveEdit /\ notice' = Toast("saved") /\ editingId[1] \in CardIds) =>
              \E i \in 1..Len(Cards) :
                  /\ Cards[i].id = editingId[1]
                  /\ Len(Cards') = Len(Cards)
                  /\ \A j \in 1..Len(Cards) : j # i => Cards'[j] = Cards[j]
                  /\ Cards'[i] = [Cards[i] EXCEPT !.title = Cards'[i].title,
                                                  !.text = Cards'[i].text]]_vars

\* C21: a saveEdit with an editingId gives every card of that id the trimmed
\* edit title ('Untitled' when that is blank) and the edit text as typed, keeps
\* the card's id, createdAt and place in the list, leaves the layouts and the
\* document library as they were, and ends the edit (editingId null, both edit
\* buffers empty); a saveEdit without editingId and a cancelEdit leave cards alone
C21_SaveEditFrame ==
    [][/\ (saveEdit /\ editingId # <<>>) =>
              LET trimmed == TrimEnd(TrimStart(editTitle))
              IN /\ Len(Cards') = Len(Cards)
                 /\ \A i \in 1..Len(Cards) :
                        Cards[i].id = editingId[1] =>
                            Cards'[i] = [id |-> Cards[i].id,
                                         title |-> IF trimmed = <<>> THEN Untitled ELSE trimmed,
                                         text |-> editText,
                                         createdAt |-> Cards[i].createdAt]
                 /\ LayoutValues(layouts', heap') = LayoutValues(layouts, heap)
                 /\ docLib' = docLib
                 /\ editingId' = <<>>
                 /\ editTitle' = <<>>
                 /\ editText' = <<>>
       /\ ((saveEdit /\ editingId = <<>>) \/ cancelEdit) => Cards' = Cards]_vars

\* A save has just given a card the title typed with a leading space, trimmed,
\* and the text typed with a trailing space, as typed
C21_Witness ==
    /\ notice = Toast("saved")
    /\ editingId = <<>>
    /\ editText = <<>>
    /\ \E i \in 1..Len(Cards) : Cards[i].title = <<"b">> /\ Cards[i].text = <<"y", Sp>>

\* C22: an addCard whose title and text are both empty once trimmed leaves the
\* cards and both form fields as they are and shows a notice; any other addCard
\* appends exactly one card, with the trimmed title ('Untitled' when that is
\* blank) and the trimmed text, and empties both form fields
C22_AddCardEffect ==
    [][addCard =>
           LET t == TrimEnd(TrimStart(title))
               x == TrimEnd(TrimStart(text))
           IN IF t = <<>> /\ x = <<>>
              THEN /\ Cards' = Cards
                   /\ title' = title
                   /\ text' = text
                   /\ notice'.kind \in {"toast", "alert"}
              ELSE /\ Len(Cards') = Len(Cards) + 1
                   /\ SubSeq(Cards', 1, Len(Cards)) = Cards
                   /\ Cards'[Len(Cards')].title = (IF t = <<>> THEN Untitled ELSE t)
                   /\ Cards'[Len(Cards')].text = x
                   /\ title' = <<>>
                   /\ text' = <<>>]_vars

\* A second card has just been added from a blank title and a text typed with
\* a trailing space
C22_Witness ==
    /\ notice = Toast("added")
    /\ Len(Cards) = 2
    /\ Cards[2].title = Untitled
    /\ Cards[2].text = <<"x">>
    /\ title = <<>>
    /\ text = <<>>

C24_SaveLayoutEffect ==
    [][\A a \in PromptAnswers :
           saveLayout(a) =>
               /\ Cards' = Cards
               /\ IF Len(Cards) = 0
                  THEN LayoutValues(layouts', heap') = LayoutValues(layouts, heap)
                  ELSE /\ Len(layouts') = Len(layouts) + 1
                       /\ SubSeq(LayoutValues(layouts', heap'), 1, Len(layouts))
                              = LayoutValues(layouts, heap)
                       /\ heap'[layouts'[Len(layouts')].cards] = Cards
                       /\ currentLayoutTitle' = layouts'[Len(layouts')].title
                       /\ a = <<>> =>
                              /\ Len(currentLayoutTitle') >= Len(Untitled)
                              /\ SubSeq(currentLayoutTitle', 1, Len(Untitled)) = Untitled]_vars

\* A layout has just been saved as 'Untitled-2', next to the one that holds
\* the title 'Untitled'
C24_Witness ==
    /\ notice = Toast("saved layout")
    /\ Len(layouts) = 2
    /\ layouts[1].title = Untitled
    /\ currentLayoutTitle = Untitled \o Suffix2
    /\ layouts[2].title = Untitled \o Suffix2
    /\ Len(Cards) > 0

\* C25: importLibraryLayouts never changes cards and keeps every layout there
\* is, with its id, title, savedAt and cards, in its place; a valid file adds
\* one layout per layout of the file, after those, in the order of the file,
\* so a valid file without layouts changes nothing.  A successful importJSON
\* leaves no card of the old list that the file does not hold, has one card
\* per record, empties the expanded set and keeps the layouts as they were
C25_ImportAppendsOrReplaces ==
    [][/\ \A f \in LibraryFiles
                 \cup {LayoutsFile(<<LayoutRec(<<<<"b">>>>, <<>>), LayoutRec(<<<<"a">>>>, <<>>)>>)} :
              importLibraryLayouts(f) =>
                  /\ Cards' = Cards
                  /\ Len(layouts') >= Len(layouts)
                  /\ SubSeq(LayoutValues(layouts', heap'), 1, Len(layouts))
                         = LayoutValues(layouts, heap)
                  /\ (f.k = "text" /\ f.json # <<>> /\ IncomingLayouts(f.json[1]) # <<>>) =>
                         LET incoming == IncomingLayouts(f.json[1])[1]
                         IN /\ Len(layouts') = Len(layouts) + Len(incoming)
                            /\ \A k \in 1..Len(incoming) :
                                   LET given == IF incoming[k] = <<>> THEN <<>>
                                                ELSE incoming[k][1].title
                                       trimmed == IF given = <<>> THEN <<>>
                                                  ELSE TrimEnd(TrimStart(given[1]))
                                       base == IF trimmed = <<>> THEN Untitled ELSE trimmed
                                       ttl == layouts'[Len(layouts) + k].title
                                   IN /\ Len(ttl) >= Len(base)
                                      /\ SubSeq(ttl, 1, Len(base)) = base
       /\ \A f \in CardFiles :
              (importJSON(f) /\ notice' = Toast("imported")) =>
                  LET recs == f.json[1].cards[1].items
                  IN /\ Len(Cards') = Len(recs)
                     /\ \A k \in 1..Len(Cards') :
                            \/ \E i \in 1..Len(recs) : recs[i][1].id = <<Cards'[k].id>>
                            \/ Cards'[k].id \notin CardIds
                     /\ expanded' = {}
                     /\ LayoutValues(layouts', heap') = LayoutValues(layouts, heap)]_vars

\* An import has just put the two layouts of a file, 'b' then 'a', after the
\* layout that was saved before
C25_Witness ==
    /\ notice = Toast("imported layouts")
    /\ Len(layouts) = 3
    /\ Len(layouts[1].id.n) = 1
    /\ layouts[2].title = <<"b">>
    /\ layouts[3].title = <<"a">>
    /\ Len(Cards) = 1

\* C26: pressing 'Show more / Show less' on a card, in any of the pages that
\* render the button, flips whether the card is in the expanded set (so a
\* second press restores the set) and changes nothing else: the other members
\* of the set, the cards and the clipboard, with its pending writes, stay
C26_ToggleFlips ==
    [][\A id \in CardIds :
           (toggleExpanded(id) \/ toggleExpandedUndefined(id)) =>
               /\ (id \in expanded') = (id \notin expanded)
               /\ expanded' \ {id} = expanded \ {id}
               /\ Cards' = Cards
               /\ clip' = clip]_vars

\* C27: a removeCard, deleteLayout, deleteFolder or deleteFile whose
\* confirmation the user declines leaves cards, layouts, docLib, activeFolder
\* and previewDocId as they were; a deleteLayout, deleteFolder or deleteFile
\* of an id that nothing has leaves them as they were too, whatever the user
\* would answer, and shows no dialog
C27_DeclinedOrUnknownIsNoOp ==
    [][LET Frame == /\ Cards' = Cards
                    /\ LayoutValues(layouts', heap') = LayoutValues(layouts, heap)
                    /\ docLib' = docLib
                    /\ activeFolder' = activeFolder
                    /\ previewDocId' = previewDocId
           NoLayout == [p |-> "L", n |-> <<0>>]
           NoFolder == [p |-> "F", n |-> <<0>>]
           NoFile == [p |-> "D", n |-> <<0, 0>>]
       IN /\ \A id \in CardIds : removeCard(id, FALSE) => Frame
          /\ \A id \in LayoutIds : deleteLayout(id, FALSE) => Frame
          /\ \A id \in FolderIds(docLib.folders) : deleteFolder(id, FALSE) => Frame
          /\ \A id \in FileIds : deleteFile(id, FALSE) => Frame
          /\ \A c \in BOOLEAN :
                 /\ (NoLayout \notin LayoutIds /\ deleteLayout(NoLayout, c)) =>
                        Frame /\ notice'.kind = "none" /\ now' = now
                 /\ (NoFolder \notin FolderIds(docLib.folders) /\ deleteFolder(NoFolder, c)) =>
                        Frame /\ notice'.kind = "none" /\ now' = now
                 /\ (NoFile \notin FileIds /\ deleteFile(NoFile, c)) =>
                        Frame /\ notice'.kind = "none" /\ now' = now]_vars

\* A confirmation has just been declined with a card, a layout, a folder and
\* a file in place, the folder selected and the file in the preview
C27_Witness ==
    /\ notice = [kind |-> "confirm", msg |-> "declined"]
    /\ Len(Cards) = 1
    /\ Len(layouts) = 1
    /\ Len(docLib.folders) = 1
    /\ Len(docLib.files) = 1
    /\ activeFolder = InFolder(docLib.folders[1].id)
    /\ previewDocId = <<docLib.files[1].id>>

\* C28: uploadTxtFiles looks only at the picked files whose name ends in
\* '.txt', in any case.  With none, docLib stays and a dialog is shown; when
\* the read of one of them fails, docLib stays; otherwise all of them are
\* appended to the files, in the order of the batch, each with its content,
\* and with folderId null unless the target is a folder
C28_UploadAllOrNothing ==
    [][\A b \in Batches :
           uploadTxtFiles(b, activeFolder) =>
               LET txt == TxtFiles(b)
                   n == Len(docLib.files)
               IN IF txt = <<>>
                  THEN docLib' = docLib /\ notice'.kind = "alert"
                  ELSE IF \E i \in 1..Len(txt) : ~txt[i].readable
                  THEN docLib' = docLib
                  ELSE /\ docLib'.folders = docLib.folders
                       /\ Len(docLib'.files) = n + Len(txt)
                       /\ SubSeq(docLib'.files, 1, n) = docLib.files
                       /\ \A i \in 1..Len(txt) :
                              /\ docLib'.files[n + i].content = txt[i].content
                              /\ docLib'.files[n + i].folderId =
                                     (IF activeFolder.k = "folder" THEN <<activeFolder.id>>
                                      ELSE <<>>)]_vars

\* C29: in every state activeFolder is 'all', 'unfiled' or the id of a folder
\* of the library, and previewDocId is null or the id of a file of the library
C29_ViewStateResolves ==
    /\ \/ activeFolder.k \in {"all", "unfiled"}
       \/ \E i \in 1..Len(docLib.folders) : docLib.folders[i].id = activeFolder.id
    /\ \/ previewDocId = <<>>
       \/ \E i \in 1..Len(docLib.files) : docLib.files[i].id = previewDocId[1]

\* A folder has just been deleted while it was selected and a file of it was
\* in the preview: the selection is 'unfiled' and the preview still has its file
C29_Witness ==
    /\ notice = Toast("folder deleted")
    /\ activeFolder = Unfiled
    /\ docLib.folders = <<>>
    /\ previewDocId # <<>>
    /\ \E i \in 1..Len(docLib.files) :
           docLib.files[i].id = previewDocId[1] /\ docLib.files[i].folderId = <<>>

\* C30: an importJSON, importLibraryLayouts, importDocLibrary or uploadTxtFiles
\* whose reads have settled has finished: it has shown a notice or a dialog,
\* after a dialog cards, layouts and docLib are as they were, and the page
\* is ready for the next event
C30_StartedImportFinishes ==
    [][(\/ \E f \in CardFiles : importJSON(f)
        \/ \E f \in LibraryFiles : importLibraryLayouts(f)
        \/ \E f \in DocFiles : importDocLibrary(f)
        \/ \E b \in Batches : uploadTxtFiles(b, activeFolder)) =>
           /\ notice'.kind \in {"toast", "alert"}
           /\ notice'.kind = "alert" =>
                  /\ Cards' = Cards
                  /\ LayoutValues(layouts', heap') = LayoutValues(layouts, heap)
                  /\ docLib' = docLib
           /\ phase' = "ready"]_vars

============================================================================
